---- MODULE Spec2Model ----
(***************************************************************************)
(* Phalcon\Storage\Adapter\Redis and Phalcon\Storage\Adapter\Apcu over a   *)
(* shared backend store.  Two adapter instances of one class sit on the    *)
(* same backend (one Redis database, or one APCu shared-memory segment);   *)
(* the backend keeps one entry per backend key, with an optional expiry.   *)
(* Strings that are concatenated or prefix-matched (keys, prefixes) are    *)
(* sequences of characters.                                                *)
(***************************************************************************)
EXTENDS Integers, Sequences, FiniteSets, TLC

VARIABLES
    class,      \* "Redis" or "Apcu": the class of both adapter instances
    prefix,     \* prefix[a]: this->prefix of adapter a
    lifetime,   \* lifetime[a]: the adapter's default TTL in seconds
    defaultSerializer, \* defaultSerializer[a]: the serializer's name
    adapter,    \* adapter[a]: this->adapter, "null" or "connected" (Redis)
    store,      \* the backend: backend key -> [payload, persist, left]
    last,       \* the last operation: its arguments, result and trace
    options,    \* options[a]: the "auth" and "index" the adapter was built with
    inflight,   \* inflight[a]: the counter call adapter a is in the middle of
    expected,   \* the signed steps of the counter calls that returned a number
    serializerOption, \* serializerOption[a]: \Redis::OPT_SERIALIZER of a's connection
    defined,    \* the \Redis::SERIALIZER_* constants the client's build defines
    held,       \* this->data of a None serializer
    file        \* a File validator under construction: its options and validators

vars == <<class, prefix, lifetime, defaultSerializer, adapter, store, last,
          options, inflight, expected, serializerOption, defined, held, file, file>>

\* --------------------------------------------------------------- bounds
MaxTtl == 2
\* the longest array of keys handed to getMultiple()
MaxKeys == 3
\* counters stay within -MaxCount .. MaxCount
MaxCount == 8
MaxLen == 3
MaxOptions == 3

\* ------------------------------------------------------------ instances
Adapters == {1, 2}
Classes == {"Redis", "Apcu"}
RawKeys == {<<"k">>, <<"q", "k">>}
\* the keys each instance is called with
KeysOf(a) == IF a = 1 THEN RawKeys ELSE {<<"k">>}
Values == {<<"a">>, <<"b">>}
\* adapter 1 keeps its prefix; adapter 2 is configured with options["prefix"]
Prefixes == {<<"q">>, <<"p", "q">>}
\* the step argument of increment() and decrement()
Steps == {2, 3, 5}
Counts == (0 - MaxCount)..MaxCount
\* the key the counter calls are made with
CounterKey == <<"k">>
\* the prefix argument of getKeys()
SubPrefixes == {<<>>, <<"q">>}
DefaultPrefix == <<"p">>

\* the ttl argument of set(): null, an integer, or a DateInterval of val seconds
TtlNull == [type |-> "NULL", val |-> 0]
TtlInt(n) == [type |-> "integer", val |-> n]
TtlInterval(n) == [type |-> "object", val |-> n]
TtlArgs ==
    {TtlNull} \cup {TtlInt(n) : n \in (0 - 1)..MaxTtl}
              \cup {TtlInterval(n) : n \in 0..MaxTtl}

\* ------------------------------------------------------- result values
\* a result is a tagged byte string
Bool(b) == [kind |-> "bool", v |-> IF b THEN <<"true">> ELSE <<"false">>]
Val(v) == [kind |-> "value", v |-> v]
Null == [kind |-> "null", v |-> <<>>]
\* an integer result, in decimal
Number(n) == [kind |-> "int", v |-> <<ToString(n)>>]
\* an array of keys, its order left open
Keys(ks) == [kind |-> "keys", v |-> ks]
Thrown(e) == [kind |-> "throw", v |-> <<e>>]
\* an exception with its message: the class, then the message's parts
ThrownWith(e) == [kind |-> "throw", v |-> e]
IsTrue(r) == r = Bool(TRUE)

\* ------------------------------------------------------------- strings
IsPrefixOf(p, s) == Len(p) <= Len(s) /\ SubSeq(s, 1, Len(p)) = p
\* s without its first Len(p) characters
Strip(p, s) == SubSeq(s, Len(p) + 1, Len(s))

\* ------------------------------------------------------------- backend
Put(s, bk, e) == [x \in (DOMAIN s) \cup {bk} |-> IF x = bk THEN e ELSE s[x]]
Drop(s, ks) == [x \in (DOMAIN s) \ ks |-> s[x]]
\* an entry lives while it is persistent or has seconds left
Live(s, bk) == bk \in DOMAIN s /\ (s[bk].persist \/ s[bk].left > 0)
LiveKeys(s) == {bk \in DOMAIN s : Live(s, bk)}

\* a number as the backend holds it, in decimal; the number a payload spells
Num(n) == <<ToString(n)>>
IsNum(payload) == \E n \in Counts : payload = Num(n)
NumOf(payload) == CHOOSE n \in Counts : payload = Num(n)

\* an entry stored with ttl seconds to live, and one stored without expiry
Entry(payload, ttl) == [payload |-> payload, persist |-> FALSE, left |-> ttl]
Persistent(payload) == [payload |-> payload, persist |-> TRUE, left |-> 0]
\* the backend one second later: expired entries are gone
Expire(s) ==
    LET keep == {bk \in DOMAIN s : s[bk].persist \/ s[bk].left > 1}
    IN  [bk \in keep |-> IF s[bk].persist THEN s[bk]
                         ELSE [s[bk] EXCEPT !.left = s[bk].left - 1]]

\* --------------------------------------------------------------- trace
Fire(name, key) == [t |-> "fire", name |-> name, key |-> key]
Call(name, key) == [t |-> "call", name |-> name, key |-> key]

\* --------------------------------------------------------- serializers
\* the letters of a string, and the strings of up to MaxLen letters
Letters == {"a", "b", "c"}
Strings == UNION {[1..n -> Letters] : n \in 0..MaxLen}
\* Phalcon\Storage\Serializer\None: serialize() returns the held data
None_serialize(data) == data
\* unserialize() that keeps nothing
None_unserialize_empty(data) == <<>>
None_unserialize(data) == data
\* Phalcon\Storage\Serializer\Php on a non-empty, non-numeric string
Php_serialize(data) == <<"s">> \o data
Php_isSuccess(data) == Len(data) > 0 /\ Head(data) = "s"
Php_unserialize(data) == Tail(data)

\* ------------------------------------------- the serializer's selection
\* the constants a build of the Redis client may lack
NativeConstants == {"SERIALIZER_IGBINARY", "SERIALIZER_MSGPACK", "SERIALIZER_JSON"}
\* a File validator before its constructor ran
NewFile == [stage |-> "new", live |-> FALSE, given |-> <<>>, options |-> <<>>,
            table |-> <<>>, pos |-> 1, validators |-> <<>>]

\* the serializer names an adapter can be asked to use
Names == {"php", "none", "redis_none", "redis_php", "Redis_PHP", "redis_igbinary",
          "redis_msgpack", "redis_json", "bogus"}
strtolower(name) == IF name = "Redis_PHP" THEN "redis_php" ELSE name

\* the serializers the SerializerFactory has; it rejects every other name
Registered == {"php", "none"}
SupportException == <<"SupportException", "Service is not registered">>

\* initSerializer(): no serializer for an empty name, the factory's for a
\* name it has; FALSE when the factory throws
initSerializer(name) == name = "" \/ strtolower(name) \in Registered

\* setSerializer()'s map: the constant a lower-case name stands for
NativeOf(serializer) ==
    CASE serializer = "redis_none" -> "SERIALIZER_NONE"
      [] serializer = "redis_php" -> "SERIALIZER_PHP"
      [] serializer = "redis_igbinary" -> "SERIALIZER_IGBINARY"
      [] serializer = "redis_msgpack" -> "SERIALIZER_MSGPACK"
      [] serializer = "redis_json" -> "SERIALIZER_JSON"
      [] OTHER -> "unset"
Mapped(serializer) ==
    \/ serializer \in {"redis_none", "redis_php"}
    \/ /\ serializer \in {"redis_igbinary", "redis_msgpack", "redis_json"}
       /\ NativeOf(serializer) \in defined

\* names compared as they are written
setSerializer_caseSensitive(a) ==
    LET serializer == defaultSerializer[a]
        name == IF Mapped(serializer) THEN "" ELSE defaultSerializer[a]
    IN  [defaultSerializer |-> name,
         option |-> IF Mapped(serializer) THEN NativeOf(serializer) ELSE "unset",
         ok |-> initSerializer(name)]

\* setSerializer(connection): a mapped name is cleared and handed to the
\* client of the new connection; then initSerializer()
setSerializer(a) ==
    LET serializer == strtolower(defaultSerializer[a])
        name == IF Mapped(serializer) THEN "" ELSE defaultSerializer[a]
    IN  [defaultSerializer |-> name,
         option |-> IF Mapped(serializer) THEN NativeOf(serializer) ELSE "unset",
         ok |-> initSerializer(name)]

\* the name and the client's option as a method finds them once
\* getAdapter() has returned
Connection(a) ==
    IF class = "Redis" /\ adapter[a] = "null" THEN setSerializer(a)
    ELSE [defaultSerializer |-> defaultSerializer[a], option |-> serializerOption[a],
          ok |-> TRUE]

\* the client's own codec under OPT_SERIALIZER
ClientTag(option) ==
    CASE option = "SERIALIZER_PHP" -> <<"s">>
      [] option = "SERIALIZER_IGBINARY" -> <<"i">>
      [] option = "SERIALIZER_MSGPACK" -> <<"m">>
      [] option = "SERIALIZER_JSON" -> <<"j">>
      [] OTHER -> <<>>
clientPack(a, payload) == ClientTag(Connection(a).option) \o payload
clientUnpack(a, payload) ==
    IF IsPrefixOf(ClientTag(Connection(a).option), payload)
    THEN Strip(ClientTag(Connection(a).option), payload) ELSE payload

\* new Redis(...) builds no serializer; new Apcu(...) calls initSerializer()
Constructs(c, name) == c = "Redis" \/ initSerializer(name)

\* ------------------------------------------------------ AbstractAdapter
getPrefixedKey(a, key) == prefix[a] \o key

getTtl(a, ttl) == IF ttl.type = "NULL" THEN lifetime[a] ELSE ttl.val

\* the keys under this->prefix . p, the adapter's prefix taken off
getFilteredKeys(a, keys, p) ==
    {Strip(prefix[a], bk) : bk \in {x \in keys : IsPrefixOf(prefix[a] \o p, x)}}

getSerializedData(a, content) ==
    IF strtolower(Connection(a).defaultSerializer) = "php" THEN Php_serialize(content)
    ELSE IF strtolower(Connection(a).defaultSerializer) = "none"
    THEN None_serialize(content)
    ELSE content

getUnserializedData(a, content) ==
    IF strtolower(Connection(a).defaultSerializer) = "php"
    THEN IF Php_isSuccess(content) THEN Val(Php_unserialize(content)) ELSE Null
    ELSE IF strtolower(Connection(a).defaultSerializer) = "none"
    THEN Val(None_unserialize(content))
    ELSE Val(content)

\* ---------------------------------------------------------------- APCu
\* apcu_store: a ttl of 0 keeps the entry until it is removed
phpApcuStore(s, key, payload, ttl) ==
    [store |-> Put(s, key, IF ttl = 0 THEN Persistent(payload)
                                      ELSE Entry(payload, ttl)),
     ret |-> TRUE]

\* apcu_delete: false when there is no entry to remove
phpApcuDelete(s, key) == [store |-> Drop(s, {key}), ret |-> Live(s, key)]

phpApcuExists(s, key) == Live(s, key)

\* apcu_fetch: the payload, or false
phpApcuFetch(s, key) ==
    IF Live(s, key) THEN [found |-> TRUE, payload |-> s[key].payload]
    ELSE [found |-> FALSE, payload |-> <<>>]

\* an entry that is no number counted as 0 and overwritten
phpApcuInc_coerce(s, key, step) ==
    IF Live(s, key) /\ IsNum(s[key].payload)
    THEN LET n == NumOf(s[key].payload) + step
         IN  [store |-> Put(s, key, [s[key] EXCEPT !.payload = Num(n)]), ok |-> TRUE, n |-> n]
    ELSE [store |-> Put(s, key, Persistent(Num(step))), ok |-> TRUE, n |-> step]

\* apcu_inc: an absent entry starts from 0; false on an entry that is no number
phpApcuInc(s, key, step) ==
    IF ~Live(s, key) THEN [store |-> Put(s, key, Persistent(Num(step))), ok |-> TRUE, n |-> step]
    ELSE IF IsNum(s[key].payload)
    THEN LET n == NumOf(s[key].payload) + step
         IN  [store |-> Put(s, key, [s[key] EXCEPT !.payload = Num(n)]), ok |-> TRUE, n |-> n]
    ELSE [store |-> s, ok |-> FALSE, n |-> 0]

\* apcu_dec
phpApcuDec(s, key, step) ==
    IF ~Live(s, key)
    THEN [store |-> Put(s, key, Persistent(Num(0 - step))), ok |-> TRUE, n |-> 0 - step]
    ELSE IF IsNum(s[key].payload)
    THEN LET n == NumOf(s[key].payload) - step
         IN  [store |-> Put(s, key, [s[key] EXCEPT !.payload = Num(n)]), ok |-> TRUE, n |-> n]
    ELSE [store |-> s, ok |-> FALSE, n |-> 0]

\* new APCUIterator("/^" . pattern . "/"): the keys of the matching entries
phpApcuIterator(s, pattern) == {key \in LiveKeys(s) : IsPrefixOf(pattern, key)}

\* ------------------------------------------- Phalcon\Storage\Adapter\Apcu
\* every method yields the backend after it, its result and its trace
\* the loop left after its first item
Apcu_clearLoop_once(s, items, result) ==
    IF items = {} THEN [store |-> s, result |-> result]
    ELSE LET item == CHOOSE x \in items : TRUE
             d == phpApcuDelete(s, item)
         IN  [store |-> d.store, result |-> IF d.ret # TRUE THEN FALSE ELSE result]

RECURSIVE Apcu_clearLoop(_, _, _)
Apcu_clearLoop(s, items, result) ==
    IF items = {} THEN [store |-> s, result |-> result]
    ELSE LET item == CHOOSE x \in items : TRUE
             d == phpApcuDelete(s, item)
         IN  Apcu_clearLoop(d.store, items \ {item},
                            IF d.ret # TRUE THEN FALSE ELSE result)

\* apcu_delete under a backend that refuses the keys in failing
phpApcuDeleteUnder(s, key, failing) ==
    IF key \in failing THEN [store |-> s, ret |-> FALSE] ELSE phpApcuDelete(s, key)

\* the loop left at the first delete that fails
RECURSIVE Apcu_clearLoopUnder_break(_, _, _, _, _)
Apcu_clearLoopUnder_break(s, items, result, failing, trace) ==
    IF items = {} \/ ~result THEN [store |-> s, result |-> result, trace |-> trace]
    ELSE LET item == CHOOSE x \in items : TRUE
             d == phpApcuDeleteUnder(s, item, failing)
         IN  Apcu_clearLoopUnder_break(d.store, items \ {item},
                                       IF d.ret # TRUE THEN FALSE ELSE result, failing,
                                       Append(trace, Call("apcu_delete", item)))

\* clear()'s loop with every delete it attempts written down
RECURSIVE Apcu_clearLoopUnder(_, _, _, _, _)
Apcu_clearLoopUnder(s, items, result, failing, trace) ==
    IF items = {} THEN [store |-> s, result |-> result, trace |-> trace]
    ELSE LET item == CHOOSE x \in items : TRUE
             d == phpApcuDeleteUnder(s, item, failing)
         IN  Apcu_clearLoopUnder(d.store, items \ {item},
                                 IF d.ret # TRUE THEN FALSE ELSE result, failing,
                                 Append(trace, Call("apcu_delete", item)))

\* clear() under a backend that may give no iterator and refuse deletes
Apcu_clearUnder(a, s, iterator, failing) ==
    LET apc == phpApcuIterator(s, prefix[a])
        r == Apcu_clearLoopUnder(s, apc, TRUE, failing,
                                 <<Call("APCUIterator", prefix[a])>>)
    IN  IF ~iterator
        THEN [store |-> s, ret |-> Bool(FALSE),
              trace |-> <<Call("APCUIterator", prefix[a])>>]
        ELSE [store |-> r.store, ret |-> Bool(r.result), trace |-> r.trace]

\* nothing to delete reported as a failure
Apcu_clear_emptyFails(a, s) ==
    LET apc == phpApcuIterator(s, prefix[a])
        r == Apcu_clearLoop(s, apc, apc # {})
    IN  [store |-> r.store, ret |-> Bool(r.result),
         trace |-> <<Call("APCUIterator", prefix[a])>>]

\* the pattern built without the prefix: "/^/"
Apcu_clear_everything(a, s) ==
    LET apc == phpApcuIterator(s, <<>>)
        r == Apcu_clearLoop(s, apc, TRUE)
    IN  [store |-> r.store, ret |-> Bool(r.result),
         trace |-> <<Call("APCUIterator", <<>>)>>]

Apcu_clear(a, s) ==
    LET apc == phpApcuIterator(s, prefix[a])
        r == Apcu_clearLoop(s, apc, TRUE)
    IN  [store |-> r.store, ret |-> Bool(r.result),
         trace |-> <<Call("APCUIterator", prefix[a])>>]

\* the result of a counter call: the new number, or false
Counted(r) == IF r.ok THEN Number(r.n) ELSE Bool(FALSE)

\* the step left out of the call: apcu_dec(key) moves by 1
Apcu_decrement_byOne(a, s, key, value) ==
    LET r == phpApcuDec(s, getPrefixedKey(a, key), 1)
    IN  [store |-> r.store, ret |-> Counted(r),
         trace |-> <<Fire("beforeDecrement", key),
                     Call("apcu_dec", getPrefixedKey(a, key)),
                     Fire("afterDecrement", key)>>]

Apcu_decrement(a, s, key, value) ==
    LET r == phpApcuDec(s, getPrefixedKey(a, key), value)
    IN  [store |-> r.store, ret |-> Counted(r),
         trace |-> <<Fire("beforeDecrement", key),
                     Call("apcu_dec", getPrefixedKey(a, key)),
                     Fire("afterDecrement", key)>>]

\* the events fired with the key the backend is asked for
Apcu_delete_firePrefixed(a, s, key) ==
    LET d == phpApcuDelete(s, getPrefixedKey(a, key))
    IN  [store |-> d.store, ret |-> Bool(d.ret),
         trace |-> <<Fire("beforeDelete", getPrefixedKey(a, key)),
                     Call("apcu_delete", getPrefixedKey(a, key)),
                     Fire("afterDelete", getPrefixedKey(a, key))>>]

Apcu_delete(a, s, key) ==
    LET d == phpApcuDelete(s, getPrefixedKey(a, key))
    IN  [store |-> d.store, ret |-> Bool(d.ret),
         trace |-> <<Fire("beforeDelete", key),
                     Call("apcu_delete", getPrefixedKey(a, key)),
                     Fire("afterDelete", key)>>]

\* the pattern built from the argument alone: "/^" . prefix . "/"
Apcu_getKeys_noPrefix(a, s, p) ==
    [store |-> s, ret |-> Keys(phpApcuIterator(s, p)),
     trace |-> <<Call("APCUIterator", p)>>]

\* results[] = item["key"]: the keys as the backend holds them
Apcu_getKeys(a, s, p) ==
    [store |-> s, ret |-> Keys(phpApcuIterator(s, prefix[a] \o p)),
     trace |-> <<Call("APCUIterator", prefix[a] \o p)>>]

Apcu_increment(a, s, key, value) ==
    LET r == phpApcuInc(s, getPrefixedKey(a, key), value)
    IN  [store |-> r.store, ret |-> Counted(r),
         trace |-> <<Fire("beforeIncrement", key),
                     Call("apcu_inc", getPrefixedKey(a, key)),
                     Fire("afterIncrement", key)>>]

\* the raw key looked up, without the prefix
Apcu_has_unprefixed(a, s, key) ==
    [store |-> s, ret |-> Bool(phpApcuExists(s, key)),
     trace |-> <<Fire("beforeHas", key), Call("apcu_exists", key),
                 Fire("afterHas", key)>>]

Apcu_has(a, s, key) ==
    [store |-> s, ret |-> Bool(phpApcuExists(s, getPrefixedKey(a, key))),
     trace |-> <<Fire("beforeHas", key),
                 Call("apcu_exists", getPrefixedKey(a, key)),
                 Fire("afterHas", key)>>]

\* the comparison off by one: ttl < 0
Apcu_set_expired_negative(ttl) == ttl.type = "integer" /\ ttl.val < 0

\* typeof ttl === "integer" && ttl < 1
Apcu_set_expired(ttl) == ttl.type = "integer" /\ ttl.val < 1

Apcu_set_store(a, s, key, value, ttl) ==
    phpApcuStore(s, getPrefixedKey(a, key), getSerializedData(a, value), getTtl(a, ttl))

\* afterSet fired ahead of the store
Apcu_set_afterFirst(a, s, key, value, ttl) ==
    IF Apcu_set_expired(ttl)
    THEN LET d == Apcu_delete(a, s, key)
         IN  [store |-> d.store, ret |-> d.ret,
              trace |-> <<Fire("beforeSet", key)>> \o d.trace
                        \o <<Fire("afterSet", key)>>]
    ELSE LET r == Apcu_set_store(a, s, key, value, ttl)
         IN  [store |-> r.store, ret |-> Bool(r.ret),
              trace |-> <<Fire("beforeSet", key), Fire("afterSet", key),
                          Call("apcu_store", getPrefixedKey(a, key))>>]

Apcu_set(a, s, key, value, ttl) ==
    IF Apcu_set_expired(ttl)
    THEN LET d == Apcu_delete(a, s, key)
         IN  [store |-> d.store, ret |-> d.ret,
              trace |-> <<Fire("beforeSet", key)>> \o d.trace
                        \o <<Fire("afterSet", key)>>]
    ELSE LET r == Apcu_set_store(a, s, key, value, ttl)
         IN  [store |-> r.store, ret |-> Bool(r.ret),
              trace |-> <<Fire("beforeSet", key),
                          Call("apcu_store", getPrefixedKey(a, key)),
                          Fire("afterSet", key)>>]

\* the entry stored with the default TTL
Apcu_setForever_lifetime(a, s, key, value) ==
    LET r == phpApcuStore(s, getPrefixedKey(a, key),
                          getSerializedData(a, value), lifetime[a])
    IN  [store |-> r.store, ret |-> Bool(r.ret),
         trace |-> <<Call("apcu_store", getPrefixedKey(a, key))>>]

\* phpApcuStore(key, payload): the ttl parameter defaults to 0
Apcu_setForever(a, s, key, value) ==
    LET r == phpApcuStore(s, getPrefixedKey(a, key),
                          getSerializedData(a, value), 0)
    IN  [store |-> r.store, ret |-> Bool(r.ret),
         trace |-> <<Call("apcu_store", getPrefixedKey(a, key))>>]

\* the raw key fetched, without the prefix
Apcu_doGet_unprefixed(a, s, key) == phpApcuFetch(s, key)

Apcu_doGet(a, s, key) == phpApcuFetch(s, getPrefixedKey(a, key))

\* AbstractAdapter::get on an Apcu adapter: has(), doGet(), unserialize
Apcu_get(a, s, key) ==
    LET h == Apcu_has(a, s, key)
        content == Apcu_doGet(a, s, key)
    IN  IF ~IsTrue(h.ret)
        THEN [store |-> s, ret |-> Null, trace |-> h.trace]
        ELSE [store |-> s,
              ret |-> IF content.found
                      THEN getUnserializedData(a, content.payload) ELSE Null,
              trace |-> h.trace \o <<Call("apcu_fetch", getPrefixedKey(a, key))>>]

\* --------------------------------------------------- the \Redis client
\* With OPT_PREFIX set the client prepends the prefix to every key it sends.
Servers == {"up", "down"}
\* further ways the setup can fail: connect() throwing, auth() answering
\* false or throwing, select() answering false
Faults == {"refused", "badauth", "auththrows", "badindex"}
\* the server lost while select() is under way: the client throws
Throws == {"indexthrows"}
\* the connection lost after it was set up
Drops == {"dropped"}
\* options["host"] and options["port"] as the constructor defaults them
Host == "127.0.0.1"
Port == "6379"
\* new StorageException(message)
StorageException(message) == <<"StorageException">> \o message
\* the exception the client throws, with a message of its own
RedisException == <<"RedisException", "Connection refused">>
NoError == <<>>
EmptyStore == [x \in {} |-> Persistent(<<>>)]

\* SET key payload
redisSet(s, key, payload) == [store |-> Put(s, key, Persistent(payload)), ret |-> TRUE]

\* SET key payload EX timeout: the client refuses an expiry below 1
redisSetTimeout(s, key, payload, timeout) ==
    IF timeout < 1 THEN [store |-> s, ret |-> FALSE]
    ELSE [store |-> Put(s, key, Entry(payload, timeout)), ret |-> TRUE]

\* DEL key: the number of keys removed
redisDel(s, key) == [store |-> Drop(s, {key}), ret |-> IF Live(s, key) THEN 1 ELSE 0]

\* EXISTS key: the number of keys found
redisExists(s, key) == IF Live(s, key) THEN 1 ELSE 0

\* GET key: the payload, or false
redisGet(s, key) ==
    IF Live(s, key) THEN [found |-> TRUE, payload |-> s[key].payload]
    ELSE [found |-> FALSE, payload |-> <<>>]

\* the number replaced by n, whatever was there
redisIncrBy_overwrite(s, key, n) ==
    [store |-> Put(s, key, Persistent(Num(n))), ok |-> TRUE, n |-> n]

\* INCRBY key n: an absent key starts from 0; an error, which the client
\* reports as false, on a value that is no integer
redisIncrBy(s, key, n) ==
    IF ~Live(s, key) THEN [store |-> Put(s, key, Persistent(Num(n))), ok |-> TRUE, n |-> n]
    ELSE IF IsNum(s[key].payload)
    THEN LET m == NumOf(s[key].payload) + n
         IN  [store |-> Put(s, key, [s[key] EXCEPT !.payload = Num(m)]), ok |-> TRUE, n |-> m]
    ELSE [store |-> s, ok |-> FALSE, n |-> 0]

\* DECRBY key n
redisDecrBy(s, key, n) ==
    IF ~Live(s, key)
    THEN [store |-> Put(s, key, Persistent(Num(0 - n))), ok |-> TRUE, n |-> 0 - n]
    ELSE IF IsNum(s[key].payload)
    THEN LET m == NumOf(s[key].payload) - n
         IN  [store |-> Put(s, key, [s[key] EXCEPT !.payload = Num(m)]), ok |-> TRUE, n |-> m]
    ELSE [store |-> s, ok |-> FALSE, n |-> 0]

\* KEYS pattern*: the client prepends the prefix to the pattern and returns
\* the keys as the server holds them
redisKeys(s, pfx, pattern) == {bk \in LiveKeys(s) : IsPrefixOf(pfx \o pattern, bk)}

\* FLUSHDB: every key of the selected database
redisFlushDB(s) == [store |-> EmptyStore, ret |-> TRUE]

\* ------------------------------------------ Phalcon\Storage\Adapter\Redis
\* checkConnect(): connect() answering false, or throwing, ends the setup
\* with a StorageException: of host and port for the first, of the
\* client's own message for the second
checkConnect(a, srv) ==
    [ok |-> srv \notin {"down", "refused"}, trace |-> <<Call("connect", <<>>)>>,
     error |-> IF srv = "down"
               THEN StorageException(<<"Could not connect to the Redisd server [",
                                       Host, ":", Port, "]">>)
               ELSE IF srv = "refused" THEN StorageException(Tail(RedisException))
               ELSE NoError]

\* auth() called without the try around it
checkAuth_uncaught(a, srv) ==
    IF options[a].auth = "" THEN [ok |-> TRUE, trace |-> <<>>, error |-> NoError]
    ELSE [ok |-> srv \notin {"badauth", "auththrows"}, trace |-> <<Call("auth", <<>>)>>,
          error |-> IF srv = "badauth"
                    THEN StorageException(<<"Failed to authenticate with the Redis server">>)
                    ELSE IF srv = "auththrows" THEN RedisException
                    ELSE NoError]

\* checkAuth(): auth() is called only with a non-empty options["auth"]; a
\* false answer and a thrown exception both end in a StorageException
checkAuth(a, srv) ==
    IF options[a].auth = "" THEN [ok |-> TRUE, trace |-> <<>>, error |-> NoError]
    ELSE [ok |-> srv \notin {"badauth", "auththrows"}, trace |-> <<Call("auth", <<>>)>>,
          error |-> IF srv \in {"badauth", "auththrows"}
                    THEN StorageException(<<"Failed to authenticate with the Redis server">>)
                    ELSE NoError]

\* checkIndex(): select() is called only with options["index"] > 0; a
\* false answer throws a StorageException, an exception of the client's
\* passes through as it is
checkIndex(a, srv) ==
    IF options[a].index > 0
    THEN [ok |-> srv \notin {"badindex", "indexthrows"},
          trace |-> <<Call("select", <<>>)>>,
          error |-> IF srv = "badindex"
                    THEN StorageException(<<"Redis server selected database failed">>)
                    ELSE IF srv = "indexthrows" THEN RedisException
                    ELSE NoError]
    ELSE [ok |-> TRUE, trace |-> <<>>, error |-> NoError]

\* this->adapter set as soon as connect() succeeded
getAdapter_storeEarly(a, h, srv) ==
    IF h # "null" THEN [adapter |-> h, ok |-> TRUE, trace |-> <<>>, error |-> NoError]
    ELSE LET c == checkConnect(a, srv)
             u == checkAuth(a, srv)
             i == checkIndex(a, srv)
         IN  IF ~c.ok
             THEN [adapter |-> "null", ok |-> FALSE, trace |-> c.trace, error |-> c.error]
             ELSE IF ~u.ok
             THEN [adapter |-> "connected", ok |-> FALSE, trace |-> c.trace \o u.trace,
                   error |-> u.error]
             ELSE IF ~i.ok
             THEN [adapter |-> "connected", ok |-> FALSE,
                   trace |-> c.trace \o u.trace \o i.trace, error |-> i.error]
             ELSE [adapter |-> "connected", ok |-> TRUE,
                   trace |-> c.trace \o u.trace \o i.trace
                             \o <<Call("setOption", prefix[a]),
                                  Call("setSerializer", <<>>)>>,
                   error |-> NoError]

\* a handle answered without any connection made
getAdapter_unconnected(a, h, srv) ==
    [adapter |-> "connected", ok |-> TRUE, trace |-> <<>>, error |-> NoError]

\* getAdapter(): the stored connection, or a new one set up in stages; a
\* failed stage throws and leaves this->adapter null
getAdapter(a, h, srv) ==
    IF h # "null" THEN [adapter |-> h, ok |-> TRUE, trace |-> <<>>, error |-> NoError]
    ELSE LET c == checkConnect(a, srv)
             u == checkAuth(a, srv)
             i == checkIndex(a, srv)
         IN  IF ~c.ok
             THEN [adapter |-> "null", ok |-> FALSE, trace |-> c.trace, error |-> c.error]
             ELSE IF ~u.ok
             THEN [adapter |-> "null", ok |-> FALSE, trace |-> c.trace \o u.trace,
                   error |-> u.error]
             ELSE IF ~i.ok
             THEN [adapter |-> "null", ok |-> FALSE,
                   trace |-> c.trace \o u.trace \o i.trace, error |-> i.error]
             ELSE IF ~setSerializer(a).ok
             THEN [adapter |-> "null", ok |-> FALSE,
                   trace |-> c.trace \o u.trace \o i.trace
                             \o <<Call("setOption", prefix[a]),
                                  Call("setSerializer", <<>>)>>,
                   error |-> SupportException]
             ELSE [adapter |-> "connected", ok |-> TRUE,
                   trace |-> c.trace \o u.trace \o i.trace
                             \o <<Call("setOption", prefix[a]),
                                  Call("setSerializer", <<>>)>>,
                   error |-> NoError]

Raise(s, g, trace) ==
    [store |-> s, adapter |-> g.adapter, ret |-> ThrownWith(g.error),
     trace |-> trace \o g.trace]

\* a command sent over a connection that is gone: the client throws, and
\* no method of the adapter catches it
Lost(s, g, trace) ==
    [store |-> s, adapter |-> g.adapter, ret |-> ThrownWith(RedisException),
     trace |-> trace]

Redis_clear(a, s, h, srv) ==
    LET g == getAdapter(a, h, srv)
        r == redisFlushDB(s)
    IN  IF ~g.ok THEN Raise(s, g, <<>>)
        ELSE IF srv = "dropped"
        THEN Lost(s, g, g.trace \o <<Call("flushDB", <<>>)>>)
        ELSE [store |-> r.store, adapter |-> g.adapter, ret |-> Bool(r.ret),
              trace |-> g.trace \o <<Call("flushDB", <<>>)>>]

Redis_decrement(a, s, h, srv, key, value) ==
    LET g == getAdapter(a, h, srv)
        r == redisDecrBy(s, prefix[a] \o key, value)
    IN  IF ~g.ok THEN Raise(s, g, <<Fire("beforeDecrement", key)>>)
        ELSE IF srv = "dropped"
        THEN Lost(s, g, <<Fire("beforeDecrement", key)>> \o g.trace \o <<Call("decrBy", prefix[a] \o key)>>)
        ELSE [store |-> r.store, adapter |-> g.adapter, ret |-> Counted(r),
              trace |-> <<Fire("beforeDecrement", key)>> \o g.trace
                        \o <<Call("decrBy", prefix[a] \o key),
                             Fire("afterDecrement", key)>>]

\* the result reported as success whatever DEL counted
Redis_delete_true(a, s, h, srv, key) ==
    LET g == getAdapter(a, h, srv)
        d == redisDel(s, prefix[a] \o key)
    IN  IF ~g.ok THEN Raise(s, g, <<Fire("beforeDelete", key)>>)
        ELSE [store |-> d.store, adapter |-> g.adapter, ret |-> Bool(TRUE),
              trace |-> <<Fire("beforeDelete", key)>> \o g.trace
                        \o <<Call("del", prefix[a] \o key),
                             Fire("afterDelete", key)>>]

Redis_delete(a, s, h, srv, key) ==
    LET g == getAdapter(a, h, srv)
        d == redisDel(s, prefix[a] \o key)
    IN  IF ~g.ok THEN Raise(s, g, <<Fire("beforeDelete", key)>>)
        ELSE IF srv = "dropped"
        THEN Lost(s, g, <<Fire("beforeDelete", key)>> \o g.trace \o <<Call("del", prefix[a] \o key)>>)
        ELSE [store |-> d.store, adapter |-> g.adapter, ret |-> Bool(d.ret # 0),
              trace |-> <<Fire("beforeDelete", key)>> \o g.trace
                        \o <<Call("del", prefix[a] \o key),
                             Fire("afterDelete", key)>>]

Redis_getKeys(a, s, h, srv, p) ==
    LET g == getAdapter(a, h, srv)
    IN  IF ~g.ok THEN Raise(s, g, <<>>)
        ELSE IF srv = "dropped"
        THEN Lost(s, g, g.trace \o <<Call("keys", prefix[a])>>)
        ELSE [store |-> s, adapter |-> g.adapter,
              ret |-> Keys(getFilteredKeys(a, redisKeys(s, prefix[a], <<>>), p)),
              trace |-> g.trace \o <<Call("keys", prefix[a])>>]

\* a new connection set up for every call
Redis_has_reconnect(a, s, h, srv, key) ==
    LET g == getAdapter(a, "null", srv)
    IN  IF ~g.ok THEN Raise(s, g, <<Fire("beforeHas", key)>>)
        ELSE [store |-> s, adapter |-> g.adapter,
              ret |-> Bool(redisExists(s, prefix[a] \o key) # 0),
              trace |-> <<Fire("beforeHas", key)>> \o g.trace
                        \o <<Call("exists", prefix[a] \o key),
                             Fire("afterHas", key)>>]

Redis_has(a, s, h, srv, key) ==
    LET g == getAdapter(a, h, srv)
    IN  IF ~g.ok THEN Raise(s, g, <<Fire("beforeHas", key)>>)
        ELSE IF srv = "dropped"
        THEN Lost(s, g, <<Fire("beforeHas", key)>> \o g.trace \o <<Call("exists", prefix[a] \o key)>>)
        ELSE [store |-> s, adapter |-> g.adapter,
              ret |-> Bool(redisExists(s, prefix[a] \o key) # 0),
              trace |-> <<Fire("beforeHas", key)>> \o g.trace
                        \o <<Call("exists", prefix[a] \o key),
                             Fire("afterHas", key)>>]

Redis_increment(a, s, h, srv, key, value) ==
    LET g == getAdapter(a, h, srv)
        r == redisIncrBy(s, prefix[a] \o key, value)
    IN  IF ~g.ok THEN Raise(s, g, <<Fire("beforeIncrement", key)>>)
        ELSE IF srv = "dropped"
        THEN Lost(s, g, <<Fire("beforeIncrement", key)>> \o g.trace \o <<Call("incrBy", prefix[a] \o key)>>)
        ELSE [store |-> r.store, adapter |-> g.adapter, ret |-> Counted(r),
              trace |-> <<Fire("beforeIncrement", key)>> \o g.trace
                        \o <<Call("incrBy", prefix[a] \o key),
                             Fire("afterIncrement", key)>>]

\* typeof ttl === "integer" && ttl < 1
Redis_set_expired(ttl) == ttl.type = "integer" /\ ttl.val < 1

\* the value handed to the client as it is, not serialized
Redis_set_store_raw(a, s, key, value, ttl) ==
    redisSetTimeout(s, prefix[a] \o key, value, getTtl(a, ttl))

Redis_set_store(a, s, key, value, ttl) ==
    redisSetTimeout(s, prefix[a] \o key, clientPack(a, getSerializedData(a, value)),
                    getTtl(a, ttl))

Redis_set(a, s, h, srv, key, value, ttl) ==
    IF Redis_set_expired(ttl)
    THEN LET d == Redis_delete(a, s, h, srv, key)
         IN  [store |-> d.store, adapter |-> d.adapter, ret |-> d.ret,
              trace |-> <<Fire("beforeSet", key)>> \o d.trace
                        \o IF d.ret.kind = "throw" THEN <<>>
                           ELSE <<Fire("afterSet", key)>>]
    ELSE LET g == getAdapter(a, h, srv)
             r == Redis_set_store(a, s, key, value, ttl)
         IN  IF ~g.ok THEN Raise(s, g, <<Fire("beforeSet", key)>>)
             ELSE IF srv = "dropped"
             THEN Lost(s, g, <<Fire("beforeSet", key)>> \o g.trace \o <<Call("set", prefix[a] \o key)>>)
             ELSE [store |-> r.store, adapter |-> g.adapter, ret |-> Bool(r.ret),
                   trace |-> <<Fire("beforeSet", key)>> \o g.trace
                             \o <<Call("set", prefix[a] \o key),
                                  Fire("afterSet", key)>>]

Redis_setForever(a, s, h, srv, key, value) ==
    LET g == getAdapter(a, h, srv)
        r == redisSet(s, prefix[a] \o key, clientPack(a, getSerializedData(a, value)))
    IN  IF ~g.ok THEN Raise(s, g, <<>>)
        ELSE IF srv = "dropped"
        THEN Lost(s, g, g.trace \o <<Call("set", prefix[a] \o key)>>)
        ELSE [store |-> r.store, adapter |-> g.adapter, ret |-> Bool(r.ret),
              trace |-> g.trace \o <<Call("set", prefix[a] \o key)>>]

\* AbstractAdapter::get on a Redis adapter: has(), doGet(), unserialize
Redis_get(a, s, h, srv, key) ==
    LET e == Redis_has(a, s, h, srv, key)
        content == redisGet(s, prefix[a] \o key)
    IN  IF e.ret.kind = "throw" THEN e
        ELSE IF ~IsTrue(e.ret)
        THEN [store |-> s, adapter |-> e.adapter, ret |-> Null, trace |-> e.trace]
        ELSE [store |-> s, adapter |-> e.adapter,
              ret |-> IF content.found
                      THEN getUnserializedData(a, clientUnpack(a, content.payload))
                      ELSE Null,
              trace |-> e.trace \o <<Call("get", prefix[a] \o key)>>]

\* ------------------------------------------------------------- dispatch
\* an Apcu adapter holds no connection: this->adapter stays as it is
OnApcu(r, h) == [store |-> r.store, adapter |-> h, ret |-> r.ret, trace |-> r.trace]

clear(a, s, h, srv) ==
    IF class = "Redis" THEN Redis_clear(a, s, h, srv) ELSE OnApcu(Apcu_clear(a, s), h)
delete(a, s, h, srv, key) ==
    IF class = "Redis" THEN Redis_delete(a, s, h, srv, key)
    ELSE OnApcu(Apcu_delete(a, s, key), h)
decrement(a, s, h, srv, key, value) ==
    IF class = "Redis" THEN Redis_decrement(a, s, h, srv, key, value)
    ELSE OnApcu(Apcu_decrement(a, s, key, value), h)
increment(a, s, h, srv, key, value) ==
    IF class = "Redis" THEN Redis_increment(a, s, h, srv, key, value)
    ELSE OnApcu(Apcu_increment(a, s, key, value), h)
getKeys(a, s, h, srv, p) ==
    IF class = "Redis" THEN Redis_getKeys(a, s, h, srv, p)
    ELSE OnApcu(Apcu_getKeys(a, s, p), h)
has(a, s, h, srv, key) ==
    IF class = "Redis" THEN Redis_has(a, s, h, srv, key)
    ELSE OnApcu(Apcu_has(a, s, key), h)
get(a, s, h, srv, key) ==
    IF class = "Redis" THEN Redis_get(a, s, h, srv, key)
    ELSE OnApcu(Apcu_get(a, s, key), h)
set(a, s, h, srv, key, value, ttl) ==
    IF class = "Redis" THEN Redis_set(a, s, h, srv, key, value, ttl)
    ELSE OnApcu(Apcu_set(a, s, key, value, ttl), h)
setForever(a, s, h, srv, key, value) ==
    IF class = "Redis" THEN Redis_setForever(a, s, h, srv, key, value)
    ELSE OnApcu(Apcu_setForever(a, s, key, value), h)

\* ------------------------------------------------- Phalcon\Cache\Cache
\* the cache wraps adapter 1; "u" is a key no one stores
CacheAdapter == 1
CacheKeys == RawKeys \cup {<<"u">>}
Defaults == {Null, Val(<<"d">>)}
KeyLists == UNION {[1..n -> CacheKeys] : n \in 0..MaxKeys}
\* the keys argument: an array of keys, or a value that is no array
KeysArgs ==
    {[type |-> "array", val |-> ks] : ks \in KeyLists}
        \cup {[type |-> "integer", val |-> <<>>]}
Map(entries) == [kind |-> "map", v |-> entries]

\* adapter->get(key, defaultValue): the default in place of a miss
Cache_get(a, s, h, srv, key, default) ==
    LET r == get(a, s, h, srv, key)
    IN  [r EXCEPT !.ret = IF r.ret = Null THEN default ELSE r.ret]

\* results[key] = value: a key already there keeps its place
Assign(results, key, value) ==
    IF \E i \in DOMAIN results : results[i][1] = key
    THEN [i \in DOMAIN results |->
             IF results[i][1] = key THEN <<key, value>> ELSE results[i]]
    ELSE Append(results, <<key, value>>)

\* the loop reading the keys in the order given, one get() each
RECURSIVE Cache_getMultipleLoop(_, _, _, _, _, _, _, _)
Cache_getMultipleLoop(a, s, h, srv, keys, default, results, trace) ==
    IF keys = <<>>
    THEN [store |-> s, adapter |-> h, ret |-> Map(results), trace |-> trace]
    ELSE LET r == Cache_get(a, s, h, srv, Head(keys), default)
         IN  IF r.ret.kind = "throw"
             THEN [store |-> r.store, adapter |-> r.adapter, ret |-> r.ret,
                   trace |-> trace \o r.trace]
             ELSE Cache_getMultipleLoop(a, r.store, r.adapter, srv, Tail(keys), default,
                                        Assign(results, Head(keys), r.ret),
                                        trace \o r.trace)

\* every argument let through
Cache_checkKeys_any(keys) == TRUE

\* checkKeys(): anything but an array or a Traversable is refused
Cache_checkKeys(keys) == keys.type \in {"array", "Traversable"}

Cache_getMultiple(a, s, h, srv, keys, default) ==
    IF ~Cache_checkKeys(keys)
    THEN [store |-> s, adapter |-> h, ret |-> Thrown("InvalidArgumentException"),
          trace |-> <<>>]
    ELSE Cache_getMultipleLoop(a, s, h, srv, keys.val, default, <<>>, <<>>)

\* ---------------------------------------------------------------- state
NoKey == <<>>
NoValue == <<>>
Op(op, a, key, value, ttl, r) ==
    [op |-> op, a |-> a, key |-> key, value |-> value, ttl |-> ttl,
     ret |-> r.ret, trace |-> r.trace]

\* options["auth"] and options["index"] as the constructor defaults them
DefaultOptions == [auth |-> "", index |-> 0]
\* the options an instance can be built with
OptionSets == [auth : {"", "secret"}, index : {0, 1}]

\* no counter call under way
Idle == [stage |-> "idle", op |-> "none", key |-> NoKey, step |-> 0,
         ret |-> Null, trace |-> <<>>]

Init ==
    /\ class \in Classes
    /\ \E p \in Prefixes : prefix = [a \in Adapters |-> IF a = 1 THEN DefaultPrefix ELSE p]
    /\ lifetime = [a \in Adapters |-> IF a = 1 THEN MaxTtl ELSE 0]
    /\ defaultSerializer = [a \in Adapters |-> IF a = 1 THEN "php" ELSE "none"]
    /\ adapter = [a \in Adapters |-> "null"]
    /\ store = EmptyStore
    /\ last = [op |-> "none", a |-> 1, key |-> NoKey, value |-> NoValue,
               ttl |-> TtlNull, ret |-> Null, trace |-> <<>>]
    /\ options = [a \in Adapters |-> DefaultOptions]
    /\ inflight = [a \in Adapters |-> Idle]
    /\ expected = 0
    /\ serializerOption = [a \in Adapters |-> "unset"]
    /\ defined = NativeConstants
    /\ held = <<>>
    /\ file = NewFile

\* the shape of the state: the adapters' fields and the backend's entries
TypeOK ==
    /\ class \in Classes
    /\ prefix \in [Adapters -> {DefaultPrefix} \cup Prefixes]
    /\ lifetime \in [Adapters -> 0..MaxTtl]
    /\ defaultSerializer \in [Adapters -> Names \cup {""}]
    /\ serializerOption \in [Adapters -> {"unset", "SERIALIZER_NONE", "SERIALIZER_PHP"}
                                        \cup NativeConstants]
    /\ defined \subseteq NativeConstants
    /\ held \in Seq(Letters)
    /\ file.stage \in {"new", "loop", "done"}
    /\ file.live \in BOOLEAN
    /\ file.pos \in 1..(Len(file.table) + 1)
    /\ adapter \in [Adapters -> {"null", "connected"}]
    /\ \A bk \in DOMAIN store :
          /\ \E a \in Adapters : IsPrefixOf(prefix[a], bk)
          /\ store[bk].persist \in BOOLEAN
          /\ store[bk].left \in 0..MaxTtl
    /\ last.op \in {"none", "set", "setForever", "delete", "has", "get", "clear", "tick",
                   "getKeys", "getMultiple",
                   "increment", "decrement", "serialize", "unserialize",
                   "destroy", "read", "write"}
    /\ last.a \in Adapters
    /\ last.ttl \in TtlArgs
    /\ options \in [Adapters -> OptionSets]
    /\ \A a \in Adapters : inflight[a].stage \in {"idle", "before", "after"}
    /\ expected \in Int

\* the call has made the connection: getAdapter() ran setSerializer()
Connects(a, r) == class = "Redis" /\ adapter[a] = "null" /\ r.adapter = "connected"

Done(op, a, key, value, ttl, r) ==
    /\ store' = r.store
    /\ adapter' = [adapter EXCEPT ![a] = r.adapter]
    /\ last' = Op(op, a, key, value, ttl, r)
    /\ defaultSerializer' =
          [defaultSerializer EXCEPT
             ![a] = IF Connects(a, r) THEN setSerializer(a).defaultSerializer ELSE @]
    /\ serializerOption' =
          [serializerOption EXCEPT
             ![a] = IF Connects(a, r) THEN setSerializer(a).option ELSE @]
    /\ UNCHANGED <<class, prefix, lifetime, options, inflight, expected, defined, held, file, file>>

Set(a, key, value, ttl, srv) ==
    Done("set", a, key, value, ttl, set(a, store, adapter[a], srv, key, value, ttl))

SetForever(a, key, value, srv) ==
    Done("setForever", a, key, value, TtlNull,
         setForever(a, store, adapter[a], srv, key, value))

Delete(a, key, srv) ==
    Done("delete", a, key, NoValue, TtlNull, delete(a, store, adapter[a], srv, key))

Has(a, key, srv) ==
    Done("has", a, key, NoValue, TtlNull, has(a, store, adapter[a], srv, key))

Get(a, key, srv) ==
    Done("get", a, key, NoValue, TtlNull, get(a, store, adapter[a], srv, key))

GetKeys(a, p, srv) ==
    Done("getKeys", a, p, NoValue, TtlNull, getKeys(a, store, adapter[a], srv, p))

Clear(a, srv) ==
    Done("clear", a, NoKey, NoValue, TtlNull, clear(a, store, adapter[a], srv))

\* a second passes; the backend drops the entries whose time is up
Tick ==
    /\ store' = Expire(store)
    /\ last' = [op |-> "tick", a |-> 1, key |-> NoKey, value |-> NoValue,
                ttl |-> TtlNull, ret |-> Null, trace |-> <<>>]
    /\ UNCHANGED <<class, prefix, lifetime, defaultSerializer, serializerOption, defined, held, file,
                   options, adapter, inflight,
                   expected>>

\* the server's answer matters only while a Redis adapter has no connection
ServersFor(a) == IF class = "Redis" /\ adapter[a] = "null" THEN Servers ELSE {"up"}

Next ==
    \/ \E a \in Adapters : \E key \in KeysOf(a), value \in Values, ttl \in TtlArgs,
          srv \in ServersFor(a) : Set(a, key, value, ttl, srv)
    \/ \E a \in Adapters : \E key \in KeysOf(a), value \in Values,
          srv \in ServersFor(a) : SetForever(a, key, value, srv)
    \/ \E a \in Adapters : \E key \in KeysOf(a), srv \in ServersFor(a) :
          Delete(a, key, srv)
    \/ \E a \in Adapters : \E key \in KeysOf(a), srv \in ServersFor(a) :
          Has(a, key, srv)
    \/ \E a \in Adapters : \E key \in KeysOf(a), srv \in ServersFor(a) :
          Get(a, key, srv)
    \/ \E a \in Adapters : \E srv \in ServersFor(a) : Clear(a, srv)
    \/ Tick

Spec == Init /\ [][Next]_vars

\* --------------------------------------------------- the keys of an adapter
\* both instances writing and removing entries, and listing their keys
NextKeys ==
    \/ \E a \in Adapters : \E key \in KeysOf(a), value \in Values,
          srv \in ServersFor(a) : Set(a, key, value, TtlInt(1), srv)
    \/ \E a \in Adapters : \E key \in KeysOf(a), value \in Values,
          srv \in ServersFor(a) : SetForever(a, key, value, srv)
    \/ \E a \in Adapters : \E key \in KeysOf(a), srv \in ServersFor(a) :
          Delete(a, key, srv)
    \/ \E a \in Adapters : \E p \in SubPrefixes, srv \in ServersFor(a) :
          GetKeys(a, p, srv)
    \/ Tick

SpecKeys == Init /\ [][NextKeys]_vars

\* ------------------------------------------------------------- counters
CounterCalls == {"increment", "decrement"}
\* the number a counter call finds: 0 where there is no entry
Previous(bk) == IF Live(store, bk) THEN NumOf(store[bk].payload) ELSE 0
\* the counter under a's key stays within the bound after moving by step
InRange(a, key, step) ==
    LET bk == prefix[a] \o key
        n == IF Live(store, bk) /\ IsNum(store[bk].payload)
             THEN NumOf(store[bk].payload) ELSE 0
    IN  n + step \in Counts

Increment(a, key, step, srv) ==
    /\ InRange(a, key, step)
    /\ Done("increment", a, key, Num(step), TtlNull,
            increment(a, store, adapter[a], srv, key, step))

Decrement(a, key, step, srv) ==
    /\ InRange(a, key, 0 - step)
    /\ Done("decrement", a, key, Num(step), TtlNull,
            decrement(a, store, adapter[a], srv, key, step))

NextCounter ==
    \/ \E a \in Adapters : \E step \in Steps, srv \in ServersFor(a) :
          Increment(a, CounterKey, step, srv)
    \/ \E a \in Adapters : \E step \in Steps, srv \in ServersFor(a) :
          Decrement(a, CounterKey, step, srv)
    \/ \E a \in Adapters : \E srv \in ServersFor(a) :
          Set(a, CounterKey, <<"a">>, TtlInt(1), srv)
    \/ \E a \in Adapters : \E srv \in ServersFor(a) : Delete(a, CounterKey, srv)
    \/ Tick

SpecCounter == Init /\ [][NextCounter]_vars

\* ------------------------------------------- counter calls, interleaved
\* Two instances with the same prefix count on one key.  A call is the
\* beforeX event, then the backend command (one INCRBY/DECRBY, one
\* apcu_inc/apcu_dec), then the afterX event and the return; calls of
\* different instances interleave between these steps.
InitConcurrent ==
    /\ class \in Classes
    /\ prefix = [a \in Adapters |-> DefaultPrefix]
    /\ lifetime = [a \in Adapters |-> IF a = 1 THEN MaxTtl ELSE 0]
    /\ defaultSerializer = [a \in Adapters |-> IF a = 1 THEN "php" ELSE "none"]
    /\ adapter = [a \in Adapters |-> "null"]
    /\ store = EmptyStore
    /\ last = [op |-> "none", a |-> 1, key |-> NoKey, value |-> NoValue,
               ttl |-> TtlNull, ret |-> Null, trace |-> <<>>]
    /\ options = [a \in Adapters |-> DefaultOptions]
    /\ inflight = [a \in Adapters |-> Idle]
    /\ expected = 0
    /\ serializerOption = [a \in Adapters |-> "unset"]
    /\ defined = NativeConstants
    /\ held = <<>>
    /\ file = NewFile

Signed(op, step) == IF op = "increment" THEN step ELSE 0 - step
\* the number the counter holds: 0 where there is no entry
Counter == Previous(DefaultPrefix \o CounterKey)
\* the steps of the calls in S that have not reached the backend yet
RECURSIVE PendingUp(_)
PendingUp(S) ==
    IF S = {} THEN 0
    ELSE LET a == CHOOSE x \in S : TRUE
             c == inflight[a]
         IN  (IF c.stage = "before" /\ c.op = "increment" THEN c.step ELSE 0)
                 + PendingUp(S \ {a})
RECURSIVE PendingDown(_)
PendingDown(S) ==
    IF S = {} THEN 0
    ELSE LET a == CHOOSE x \in S : TRUE
             c == inflight[a]
         IN  (IF c.stage = "before" /\ c.op = "decrement" THEN c.step ELSE 0)
                 + PendingDown(S \ {a})

\* fire(beforeIncrement / beforeDecrement)
CallBegin(a, op, step) ==
    /\ inflight[a].stage = "idle"
    /\ Counter + PendingUp(Adapters) + step <= MaxCount
    /\ Counter - PendingDown(Adapters) - step >= 0 - MaxCount
    /\ inflight' = [inflight EXCEPT ![a] =
           [stage |-> "before", op |-> op, key |-> CounterKey, step |-> step,
            ret |-> Null, trace |-> <<>>]]
    /\ UNCHANGED <<class, prefix, lifetime, defaultSerializer, serializerOption, defined, held, file,
                   options, adapter, store, last,
                   expected>>

\* getAdapter() and the backend command
CallBackend(a, srv) ==
    /\ inflight[a].stage = "before"
    /\ LET c == inflight[a]
           r == IF c.op = "increment"
                THEN increment(a, store, adapter[a], srv, c.key, c.step)
                ELSE decrement(a, store, adapter[a], srv, c.key, c.step)
       IN  /\ store' = r.store
           /\ adapter' = [adapter EXCEPT ![a] = r.adapter]
           /\ inflight' = [inflight EXCEPT ![a] =
                  [c EXCEPT !.stage = "after", !.ret = r.ret, !.trace = r.trace]]
    /\ UNCHANGED <<class, prefix, lifetime, defaultSerializer, serializerOption, defined, held, file,
                   options, last, expected>>

\* fire(afterIncrement / afterDecrement) and the return
CallReturn(a) ==
    /\ inflight[a].stage = "after"
    /\ LET c == inflight[a]
       IN  expected' = IF c.ret.kind = "int" THEN expected + Signed(c.op, c.step)
                       ELSE expected
    /\ inflight' = [inflight EXCEPT ![a] = Idle]
    /\ UNCHANGED <<class, prefix, lifetime, defaultSerializer, serializerOption, defined, held, file,
                   options, adapter, store, last>>

NextConcurrent ==
    \/ \E a \in Adapters, op \in CounterCalls, step \in Steps : CallBegin(a, op, step)
    \/ \E a \in Adapters : \E srv \in ServersFor(a) : CallBackend(a, srv)
    \/ \E a \in Adapters : CallReturn(a)

SpecConcurrent == InitConcurrent /\ [][NextConcurrent]_vars

\* ----------------------------------------------- the connection's setup
\* Redis instances built with any auth and index, against a server that can
\* fail every stage of the setup
InitConn ==
    /\ class = "Redis"
    /\ \E p \in Prefixes : prefix = [a \in Adapters |-> IF a = 1 THEN DefaultPrefix ELSE p]
    /\ lifetime = [a \in Adapters |-> IF a = 1 THEN MaxTtl ELSE 0]
    /\ defaultSerializer = [a \in Adapters |-> IF a = 1 THEN "php" ELSE "none"]
    /\ adapter = [a \in Adapters |-> "null"]
    /\ store = EmptyStore
    /\ last = [op |-> "none", a |-> 1, key |-> NoKey, value |-> NoValue,
               ttl |-> TtlNull, ret |-> Null, trace |-> <<>>]
    /\ \E o \in OptionSets : options = [a \in Adapters |-> o]
    /\ inflight = [a \in Adapters |-> Idle]
    /\ expected = 0
    /\ serializerOption = [a \in Adapters |-> "unset"]
    /\ defined = NativeConstants
    /\ held = <<>>
    /\ file = NewFile

FaultsFor(a) ==
    IF adapter[a] = "null" THEN Servers \cup Faults \cup Throws ELSE {"up"}

NextConn ==
    \/ \E a \in Adapters : \E value \in Values, srv \in FaultsFor(a) :
          Set(a, <<"k">>, value, TtlNull, srv)
    \/ \E a \in Adapters : \E srv \in FaultsFor(a) : Delete(a, <<"k">>, srv)
    \/ \E a \in Adapters : \E srv \in FaultsFor(a) : Has(a, <<"k">>, srv)
    \/ \E a \in Adapters : \E srv \in FaultsFor(a) : Get(a, <<"k">>, srv)
    \/ \E a \in Adapters : \E srv \in FaultsFor(a) : Clear(a, srv)

SpecConn == InitConn /\ [][NextConn]_vars

\* ------------------------------------------- a connection that can drop
\* a connection can be lost once it is there
DropsFor(a) == IF adapter[a] = "connected" THEN {"up"} \cup Drops ELSE {"up"}

\* the instance whose connection is watched
DropAdapters == {1}

NextDrop ==
    \/ \E a \in DropAdapters : \E value \in Values, srv \in DropsFor(a) :
          Set(a, CounterKey, value, TtlInt(1), srv)
    \/ \E a \in DropAdapters : \E srv \in DropsFor(a) : Delete(a, CounterKey, srv)
    \/ \E a \in DropAdapters : \E srv \in DropsFor(a) : Has(a, CounterKey, srv)
    \/ \E a \in DropAdapters : \E step \in Steps, srv \in DropsFor(a) :
          Increment(a, CounterKey, step, srv)
    \/ \E a \in DropAdapters : \E step \in Steps, srv \in DropsFor(a) :
          Decrement(a, CounterKey, step, srv)
    \/ \E a \in DropAdapters : \E srv \in DropsFor(a) : Clear(a, srv)
    \/ \E a \in DropAdapters : \E srv \in DropsFor(a) : GetKeys(a, <<>>, srv)

SpecDrop == InitConn /\ [][NextDrop]_vars

\* ------------------------------------------------- every operation once
\* all the operations of both instances on one key
NextEvents ==
    \/ \E a \in Adapters : \E ttl \in {TtlInt(0), TtlInt(1)}, srv \in ServersFor(a) :
          Set(a, CounterKey, <<"a">>, ttl, srv)
    \/ \E a \in Adapters : \E srv \in ServersFor(a) :
          SetForever(a, CounterKey, <<"a">>, srv)
    \/ \E a \in Adapters : \E srv \in ServersFor(a) : Delete(a, CounterKey, srv)
    \/ \E a \in Adapters : \E srv \in ServersFor(a) : Has(a, CounterKey, srv)
    \/ \E a \in Adapters : \E srv \in ServersFor(a) : Get(a, CounterKey, srv)
    \/ \E a \in Adapters : \E step \in Steps, srv \in ServersFor(a) :
          Increment(a, CounterKey, step, srv)
    \/ \E a \in Adapters : \E step \in Steps, srv \in ServersFor(a) :
          Decrement(a, CounterKey, step, srv)
    \/ \E a \in Adapters : \E srv \in ServersFor(a) : Clear(a, srv)
    \/ \E a \in Adapters : \E srv \in ServersFor(a) : GetKeys(a, <<>>, srv)
    \/ Tick

SpecEvents == Init /\ [][NextEvents]_vars

\* ------------------------------------------------ the serializer's name
\* instances built with any name their constructor accepts, over any build
\* of the client
InitSerializer ==
    /\ class \in Classes
    /\ prefix = [a \in Adapters |-> DefaultPrefix]
    /\ lifetime = [a \in Adapters |-> MaxTtl]
    /\ \E name \in Names :
          /\ Constructs(class, name)
          /\ defaultSerializer = [a \in Adapters |-> name]
    /\ adapter = [a \in Adapters |-> "null"]
    /\ store = EmptyStore
    /\ last = [op |-> "none", a |-> 1, key |-> NoKey, value |-> NoValue,
               ttl |-> TtlNull, ret |-> Null, trace |-> <<>>]
    /\ options = [a \in Adapters |-> DefaultOptions]
    /\ inflight = [a \in Adapters |-> Idle]
    /\ expected = 0
    /\ serializerOption = [a \in Adapters |-> "unset"]
    /\ defined \in SUBSET NativeConstants
    /\ held = <<>>
    /\ file = NewFile

NextSerializer ==
    \/ \E a \in Adapters : \E value \in Values, srv \in ServersFor(a) :
          Set(a, <<"k">>, value, TtlInt(1), srv)
    \/ \E a \in Adapters : \E value \in Values, srv \in ServersFor(a) :
          SetForever(a, <<"k">>, value, srv)
    \/ \E a \in Adapters : \E srv \in ServersFor(a) : Get(a, <<"k">>, srv)
    \/ \E a \in Adapters : \E srv \in ServersFor(a) : Has(a, <<"k">>, srv)
    \/ \E a \in Adapters : \E srv \in ServersFor(a) : Delete(a, <<"k">>, srv)

SpecSerializer == InitSerializer /\ [][NextSerializer]_vars

\* -------------------------------------------------- the None serializer

\* a None serializer holding any string
InitNone ==
    /\ class = "Apcu"
    /\ prefix = [a \in Adapters |-> DefaultPrefix]
    /\ lifetime = [a \in Adapters |-> MaxTtl]
    /\ defaultSerializer = [a \in Adapters |-> "none"]
    /\ adapter = [a \in Adapters |-> "null"]
    /\ store = EmptyStore
    /\ last = [op |-> "none", a |-> 1, key |-> NoKey, value |-> NoValue,
               ttl |-> TtlNull, ret |-> Null, trace |-> <<>>]
    /\ options = [a \in Adapters |-> DefaultOptions]
    /\ inflight = [a \in Adapters |-> Idle]
    /\ expected = 0
    /\ serializerOption = [a \in Adapters |-> "unset"]
    /\ defined = NativeConstants
    /\ held \in Strings
    /\ file = NewFile

\* serialize(): the held data is the answer
Serialize ==
    /\ last' = [op |-> "serialize", a |-> 1, key |-> NoKey, value |-> NoValue,
                ttl |-> TtlNull, ret |-> Val(None_serialize(held)), trace |-> <<>>]
    /\ UNCHANGED <<class, prefix, lifetime, defaultSerializer, serializerOption, defined,
                   held, file, options, adapter, store, inflight, expected>>

\* unserialize(d): d becomes the held data
Unserialize(d) ==
    /\ held' = None_unserialize(d)
    /\ last' = [op |-> "unserialize", a |-> 1, key |-> NoKey, value |-> d,
                ttl |-> TtlNull, ret |-> Null, trace |-> <<>>]
    /\ UNCHANGED <<class, prefix, lifetime, defaultSerializer, serializerOption, defined,
                   file, options, adapter, store, inflight, expected>>

NextNone ==
    \/ Serialize
    \/ \E d \in Strings : Unserialize(d)

SpecNone == InitNone /\ [][NextNone]_vars

\* ------------------------------------------- clear() on a failing APCu
\* clear() of an Apcu instance whose backend gives or refuses the iterator
\* and refuses to delete the keys in failing
ClearUnder(a, iterator, failing) ==
    /\ class = "Apcu"
    /\ Done("clear", a, NoKey, NoValue, TtlNull,
            OnApcu(Apcu_clearUnder(a, store, iterator, failing), adapter[a]))

InitClear == Init /\ class = "Apcu"

NextClear ==
    \/ \E a \in Adapters : \E key \in KeysOf(a), value \in Values :
          Set(a, key, value, TtlInt(MaxTtl), "up")
    \/ \E a \in Adapters : \E iterator \in BOOLEAN, failing \in SUBSET LiveKeys(store) :
          ClearUnder(a, iterator, failing)
    \/ Tick

SpecClear == InitClear /\ [][NextClear]_vars

\* ------------------------------------ Phalcon\Session\Adapter\AbstractAdapter
\* a session handler over storage adapter a
SessionIds == {<<>>, <<"0">>, <<"k">>}
\* PHP's empty() on a string: "" and "0"
empty(id) == id = <<>> \/ id = <<"0">>

\* destroy() that deletes without asking has() first
Session_destroy_always(a, s, h, srv, id) == delete(a, s, h, srv, id)

\* destroy(id): delete(id) if id is not empty and has(id), else true
Session_destroy(a, s, h, srv, id) ==
    IF empty(id) THEN [store |-> s, adapter |-> h, ret |-> Bool(TRUE), trace |-> <<>>]
    ELSE LET e == has(a, s, h, srv, id)
             d == delete(a, e.store, e.adapter, srv, id)
         IN  IF e.ret.kind = "throw" THEN e
             ELSE IF IsTrue(e.ret)
             THEN [store |-> d.store, adapter |-> d.adapter, ret |-> d.ret,
                   trace |-> e.trace \o d.trace]
             ELSE [store |-> e.store, adapter |-> e.adapter, ret |-> Bool(TRUE),
                   trace |-> e.trace]

\* read() that hands get()'s null on
Session_read_null(a, s, h, srv, id) == get(a, s, h, srv, id)

\* read(id): get(id), "" in place of null
Session_read(a, s, h, srv, id) ==
    LET g == get(a, s, h, srv, id)
    IN  [store |-> g.store, adapter |-> g.adapter,
         ret |-> IF g.ret = Null THEN Val(<<>>) ELSE g.ret, trace |-> g.trace]

\* write(id, data): set(id, data) with no ttl
Session_write(a, s, h, srv, id, sessionData) == set(a, s, h, srv, id, sessionData, TtlNull)

Destroy(a, id, srv) ==
    Done("destroy", a, id, NoValue, TtlNull, Session_destroy(a, store, adapter[a], srv, id))
Read(a, id, srv) ==
    Done("read", a, id, NoValue, TtlNull, Session_read(a, store, adapter[a], srv, id))
Write(a, id, sessionData, srv) ==
    Done("write", a, id, sessionData, TtlNull,
         Session_write(a, store, adapter[a], srv, id, sessionData))

\* the handlers' storage adapters
SessionAdapters == {1}

NextSession ==
    \/ \E a \in SessionAdapters : \E id \in SessionIds, sessionData \in Values,
          srv \in ServersFor(a) : Write(a, id, sessionData, srv)
    \/ \E a \in SessionAdapters : \E id \in SessionIds, srv \in ServersFor(a) :
          Read(a, id, srv)
    \/ \E a \in SessionAdapters : \E id \in SessionIds, srv \in ServersFor(a) :
          Destroy(a, id, srv)
    \/ Tick

SpecSession == Init /\ [][NextSession]_vars

\* two handlers over one backend and one prefix; destroy() is has(), then
\* delete(), and the calls of the other handler come between the two
DestroyHas(a, id, srv) ==
    /\ inflight[a].stage = "idle"
    /\ ~empty(id)
    /\ LET e == has(a, store, adapter[a], srv, id)
       IN  /\ IsTrue(e.ret)
           /\ store' = e.store
           /\ adapter' = [adapter EXCEPT ![a] = e.adapter]
           /\ inflight' = [inflight EXCEPT ![a] =
                  [stage |-> "before", op |-> "destroy", key |-> id, step |-> 0,
                   ret |-> e.ret, trace |-> e.trace]]
    /\ UNCHANGED <<class, prefix, lifetime, defaultSerializer, serializerOption, defined, held, file,
                   options, last, expected>>

DestroyDelete(a, srv) ==
    /\ inflight[a].stage = "before" /\ inflight[a].op = "destroy"
    /\ LET c == inflight[a]
           d == delete(a, store, adapter[a], srv, c.key)
       IN  /\ store' = d.store
           /\ adapter' = [adapter EXCEPT ![a] = d.adapter]
           /\ last' = [op |-> "destroy", a |-> a, key |-> c.key, value |-> NoValue,
                       ttl |-> TtlNull, ret |-> d.ret, trace |-> c.trace \o d.trace]
    /\ inflight' = [inflight EXCEPT ![a] = Idle]
    /\ UNCHANGED <<class, prefix, lifetime, defaultSerializer, serializerOption, defined, held, file,
                   options, expected>>

\* a destroy() that returns without a delete: empty id, no entry, or has()
\* raising
DestroyReturn(a, id, srv) ==
    /\ inflight[a].stage = "idle"
    /\ empty(id) \/ ~IsTrue(has(a, store, adapter[a], srv, id).ret)
    /\ Destroy(a, id, srv)

NextSessionRace ==
    \/ \E a \in Adapters : \E id \in SessionIds, sessionData \in Values,
          srv \in ServersFor(a) :
          inflight[a].stage = "idle" /\ Write(a, id, sessionData, srv)
    \/ \E a \in Adapters : \E id \in SessionIds, srv \in ServersFor(a) :
          DestroyHas(a, id, srv)
    \/ \E a \in Adapters : DestroyDelete(a, "up")
    \/ \E a \in Adapters : \E id \in SessionIds, srv \in ServersFor(a) :
          DestroyReturn(a, id, srv)

SpecSessionRace == InitConcurrent /\ [][NextSessionRace]_vars

\* ------------------------------------------------ the File validator
\* the option keys a File validator is built with; the values play no part
\* in which sub-validators are appended
OptionKeys == {"minSize", "MINSIZE", "maxSize", "MAXSIZE", "allowedTypes",
               "messageSize", "messageValid", "allowEmpty"}
OptionArrays ==
    {o \in UNION {[1..n -> OptionKeys] : n \in 0..MaxOptions} :
        \A i, j \in DOMAIN o : i # j => o[i] # o[j]}

\* strcasecmp(): 0 when the two strings are equal up to the case of letters
strcasecmp(a, b) ==
    LET casefold(s) == CASE s \in {"minSize", "MINSIZE"} -> "minsize"
                         [] s \in {"maxSize", "MAXSIZE"} -> "maxsize"
                         [] OTHER -> s
    IN IF casefold(a) = casefold(b) THEN 0 ELSE 1

\* the constructor's chain for one key: the sub-validator it makes and the
\* option names it unsets; no validator when the chain ends in continue
FileBranch(key) ==
    IF strcasecmp(key, "minSize") = 0
    THEN [validator |-> "File\\Size\\Min", unset |-> {"messageMinSize", "includedMinSize"}]
    ELSE IF strcasecmp(key, "maxSize") = 0
    THEN [validator |-> "File\\Size\\Max", unset |-> {"maxSize", "messageSize", "includedSize"}]
    ELSE IF strcasecmp(key, "equalSize") = 0
    THEN [validator |-> "File\\Size\\Equal", unset |-> {"equalSize", "messageEqualSize"}]
    ELSE IF strcasecmp(key, "allowedTypes") = 0
    THEN [validator |-> "File\\MimeType", unset |-> {"allowedTypes", "messageType"}]
    ELSE IF strcasecmp(key, "maxResolution") = 0
    THEN [validator |-> "File\\Resolution\\Max",
          unset |-> {"maxResolution", "includedMaxResolution", "messageMaxResolution"}]
    ELSE IF strcasecmp(key, "minResolution") = 0
    THEN [validator |-> "File\\Resolution\\Min",
          unset |-> {"minResolution", "includedMinResolution", "messageMinResolution"}]
    ELSE IF strcasecmp(key, "equalResolution") = 0
    THEN [validator |-> "File\\Resolution\\Equal",
          unset |-> {"equalResolution", "messageEqualResolution"}]
    ELSE [validator |-> "continue", unset |-> {}]

\* zephir_array_unset_string() for each of the names
unsetAll(array, names) == SelectSeq(array, LAMBDA k : k \notin names)

\* __construct(options) up to the loop: the three messages are taken out of
\* the options, and the foreach starts over what is left.  An unset separates
\* the array first: inside the loop it rewrites the table the foreach walks
\* (live) when the array has no other holder, and a copy of it when it has
\* one.  The array is the constructor's own once a message was unset from
\* it; until then the caller decides whether it is shared
FileBegin(given, shared) ==
    /\ file.stage = "new"
    /\ LET left == unsetAll(given, {"messageFileEmpty", "messageIniSize", "messageValid"})
           live == left # given \/ ~shared
       IN file' = [stage |-> "loop", live |-> live, given |-> given, options |-> left,
                   table |-> left, pos |-> 1, validators |-> <<>>]
    /\ UNCHANGED <<class, prefix, lifetime, defaultSerializer, adapter, store, last,
                   options, inflight, expected, serializerOption, defined, held>>

\* one turn of the foreach: a bucket that was unset in the walked table is
\* passed over, a key outside the chain continues, a key of the chain makes
\* its validator, unsets its names and is appended to this->validators
FileStep ==
    /\ file.stage = "loop"
    /\ file.pos <= Len(file.table)
    /\ LET key == file.table[file.pos]
           present == \E i \in DOMAIN file.options : file.options[i] = key
           branch == FileBranch(key)
       IN IF (file.live /\ ~present) \/ branch.validator = "continue"
          THEN file' = [file EXCEPT !.pos = @ + 1]
          ELSE file' = [file EXCEPT
                   !.pos = @ + 1,
                   !.options = unsetAll(@, branch.unset),
                   !.validators = Append(@, [class |-> branch.validator, key |-> key])]
    /\ UNCHANGED <<class, prefix, lifetime, defaultSerializer, adapter, store, last,
                   options, inflight, expected, serializerOption, defined, held>>

\* the end of the foreach: parent::__construct(options)
FileEnd ==
    /\ file.stage = "loop"
    /\ file.pos > Len(file.table)
    /\ file' = [file EXCEPT !.stage = "done"]
    /\ UNCHANGED <<class, prefix, lifetime, defaultSerializer, adapter, store, last,
                   options, inflight, expected, serializerOption, defined, held>>

NextFile ==
    \/ \E given \in OptionArrays, shared \in BOOLEAN : FileBegin(given, shared)
    \/ FileStep
    \/ FileEnd
SpecFile == Init /\ [][NextFile]_vars
FairSpecFile == SpecFile /\ WF_vars(FileStep) /\ WF_vars(FileEnd)

\* ------------------------------------------------ the cache over adapter 1
GetMultiple(keys, default, srv) ==
    Done("getMultiple", CacheAdapter, keys, default, TtlNull,
         Cache_getMultiple(CacheAdapter, store, adapter[CacheAdapter], srv, keys, default))

NextCache ==
    \/ \E key \in KeysOf(CacheAdapter), value \in Values,
          srv \in ServersFor(CacheAdapter) : Set(CacheAdapter, key, value, TtlInt(1), srv)
    \/ \E keys \in KeysArgs, default \in Defaults, srv \in ServersFor(CacheAdapter) :
          GetMultiple(keys, default, srv)
    \/ Tick

\* the cache's adapter, and a second instance that stays unused
InitCache ==
    /\ class \in Classes
    /\ prefix = [a \in Adapters |-> IF a = CacheAdapter THEN DefaultPrefix ELSE <<"q">>]
    /\ lifetime = [a \in Adapters |-> IF a = 1 THEN MaxTtl ELSE 0]
    /\ defaultSerializer = [a \in Adapters |-> IF a = 1 THEN "php" ELSE "none"]
    /\ adapter = [a \in Adapters |-> "null"]
    /\ store = EmptyStore
    /\ last = [op |-> "none", a |-> 1, key |-> NoKey, value |-> NoValue,
               ttl |-> TtlNull, ret |-> Null, trace |-> <<>>]
    /\ options = [a \in Adapters |-> DefaultOptions]
    /\ inflight = [a \in Adapters |-> Idle]
    /\ expected = 0
    /\ serializerOption = [a \in Adapters |-> "unset"]
    /\ defined = NativeConstants
    /\ held = <<>>
    /\ file = NewFile

SpecCache == InitCache /\ [][NextCache]_vars

\* ------------------------------------------------------------ observers
\* what has(key) and get(key) answer in this state, the server being up
HasNow(a, key) == IsTrue(has(a, store, adapter[a], "up", key).ret)
GetNow(a, key) == get(a, store, adapter[a], "up", key).ret
\* the same answers in the state a step leads to
HasNext(a, key) == IsTrue(has(a, store', adapter'[a], "up", key).ret)
GetNext(a, key) == get(a, store', adapter'[a], "up", key).ret
\* what getKeys(p) answers in this state and in the next
KeysNow(a, p) == getKeys(a, store, adapter[a], "up", p).ret.v
KeysNext(a, p) == getKeys(a, store', adapter'[a], "up", p).ret.v
Raised(op) == op.ret.kind = "throw"
Calls(trace) == {trace[i].name : i \in {j \in DOMAIN trace : trace[j].t = "call"}}
StoreCalls == {"set", "apcu_store"}
DeleteCalls == {"del", "apcu_delete"}
\* the entry of a's key has more than one second left, or no expiry
Outlives(a, key) ==
    LET bk == prefix[a] \o key
    IN  bk \in DOMAIN store /\ (store[bk].persist \/ store[bk].left > 1)

\* --------------------------------------------------------------- claims
\* C1: after set(k, v) returned true with an absent or positive TTL, get(k)
\* returns v, and keeps returning it over has/get calls and over every
\* second the entry outlives.
C1_SetGetRoundTrip ==
    [][/\ (/\ last'.op = "set" /\ IsTrue(last'.ret)
           /\ (last'.ttl.type = "NULL" \/ last'.ttl.val > 0))
          => GetNext(last'.a, last'.key) = Val(last'.value)
       /\ last'.op \in {"has", "get"}
          => \A a \in Adapters : \A key \in KeysOf(a) : GetNext(a, key) = GetNow(a, key)
       /\ last'.op = "tick"
          => \A a \in Adapters : \A key \in KeysOf(a) :
                Outlives(a, key) => GetNext(a, key) = GetNow(a, key)]_vars

C1_Witness ==
    /\ last.op = "set" /\ IsTrue(last.ret) /\ last.ttl = TtlInt(1)
    /\ GetNow(last.a, last.key) = Val(last.value)

\* C2 as claimed: delete(k) returns true whether or not an entry existed, and
\* has(k) is false afterwards.
C2_DeleteAlwaysTrue ==
    (last.op = "delete" /\ ~Raised(last))
        => IsTrue(last.ret) /\ ~HasNow(last.a, last.key)

\* C2 amended: delete(k) returns true exactly when a live entry for k existed
\* before the call; in both cases has(k) is false afterwards.
C2_DeleteReportsRemoval ==
    [][(last'.op = "delete" /\ ~Raised(last'))
          => /\ IsTrue(last'.ret) <=> Live(store, prefix[last'.a] \o last'.key)
             /\ ~HasNext(last'.a, last'.key)]_vars

C2_Witness ==
    last.op = "delete" /\ last.ret = Bool(FALSE) /\ ~HasNow(last.a, last.key)

\* C3: set(k, v, ttl) with an integer ttl below 1 behaves as delete(k): the
\* same result and the same backend as delete(k) leaves, no store command is
\* sent, and has(k) is false afterwards.
C3_SetExpiredIsDelete ==
    [][(last'.op = "set" /\ last'.ttl.type = "integer" /\ last'.ttl.val < 1)
          => /\ \E srv \in ServersFor(last'.a) :
                   LET d == delete(last'.a, store, adapter[last'.a], srv, last'.key)
                   IN  /\ store' = d.store
                       /\ last'.ret = d.ret
                       /\ adapter'[last'.a] = d.adapter
             /\ Calls(last'.trace) \cap StoreCalls = {}
             /\ ~Raised(last') => ~HasNext(last'.a, last'.key)]_vars

C3_Witness ==
    /\ last.op = "set" /\ last.ttl = TtlInt(0) /\ IsTrue(last.ret)
    /\ ~HasNow(last.a, last.key)

\* the resolved TTL of the last set() call
Resolved(op) == getTtl(op.a, op.ttl)
LastKey == prefix[last.a] \o last.key

\* C4 as claimed: whenever the TTL of set(k, v, ttl) resolves to 0 or less,
\* set sends the backend's delete command and no store command.
C4_NonPositiveTtlDeletes ==
    (last.op = "set" /\ ~Raised(last) /\ Resolved(last) <= 0)
        => /\ Calls(last.trace) \cap DeleteCalls # {}
           /\ Calls(last.trace) \cap StoreCalls = {}

\* C5: has(k) answers true exactly when a live entry is stored under
\* prefix + k, and false for a key without one; it raises only when the
\* Redis connection could not be set up.
C5_HasIffLiveEntry ==
    [][last'.op = "has"
          => IF class = "Redis" /\ adapter'[last'.a] = "null"
             THEN Raised(last')
             ELSE last'.ret = Bool(Live(store, prefix[last'.a] \o last'.key))]_vars

C5_Witness ==
    last.op = "has" /\ last.ret = Bool(FALSE) /\ last.a = 2 /\ DOMAIN store # {}

\* C6 as claimed: a set(k, v) without ttl, or with a positive integer ttl,
\* leaves an entry that lives exactly the resolved number of seconds: absent
\* at once for a resolved TTL of 0, otherwise with that many seconds left.
C6_EntryLivesResolvedTtl ==
    (/\ last.op = "set" /\ ~Raised(last)
     /\ (last.ttl.type = "NULL" \/ (last.ttl.type = "integer" /\ last.ttl.val > 0)))
        => IF Resolved(last) <= 0 THEN ~HasNow(last.a, last.key)
           ELSE /\ HasNow(last.a, last.key)
                /\ ~store[LastKey].persist
                /\ store[LastKey].left = Resolved(last)

\* an entry without expiry that has(k) reports and get(k) returns as v
Forever(s, h, a, key, v) ==
    /\ prefix[a] \o key \in DOMAIN s
    /\ s[prefix[a] \o key].persist
    /\ IsTrue(has(a, s, h, "up", key).ret)
    /\ get(a, s, h, "up", key).ret = Val(v)

\* C7: after setForever(k, v) returned true the entry has no expiry, and such
\* an entry stays, with has(k) true and get(k) = v, over every second that
\* passes and every has/get call.
C7_SetForeverNeverExpires ==
    [][/\ (last'.op = "setForever" /\ IsTrue(last'.ret))
          => Forever(store', adapter'[last'.a], last'.a, last'.key, last'.value)
       /\ last'.op \in {"tick", "has", "get"}
          => \A a \in Adapters : \A key \in KeysOf(a) : \A v \in Values :
                Forever(store, adapter[a], a, key, v)
                    => Forever(store', adapter'[a], a, key, v)]_vars

C7_Witness ==
    /\ last.op = "tick"
    /\ \E a \in Adapters : \E key \in KeysOf(a) :
          Forever(store, adapter[a], a, key, <<"a">>)

\* no live entry in the part of the backend that clear() of a empties
EmptyFor(a) ==
    IF class = "Redis" THEN LiveKeys(store) = {}
    ELSE {bk \in LiveKeys(store) : IsPrefixOf(prefix[a], bk)} = {}

\* C8: clear() on a store that is already empty returns true, and so does a
\* clear() that follows a clear() that returned true.
C8_ClearTwiceTrue ==
    \A a \in Adapters :
        (EmptyFor(a) \/ (last.op = "clear" /\ last.a = a /\ IsTrue(last.ret)))
            => IsTrue(clear(a, store, adapter[a], "up").ret)

C8_Witness == last.op = "clear" /\ IsTrue(last.ret) /\ EmptyFor(last.a)

\* C9: after clear() returned true, has(k) is false for every key of that
\* adapter.
C9_ClearedKeysAbsent ==
    (last.op = "clear" /\ IsTrue(last.ret))
        => \A key \in RawKeys : ~HasNow(last.a, key)

C9_Witness ==
    /\ last.op = "clear" /\ IsTrue(last.ret) /\ class = "Apcu"
    /\ \A key \in RawKeys : ~HasNow(last.a, key)
    /\ DOMAIN store # {}

\* C10 as claimed: clear() leaves every entry stored under another
\* adapter's prefix as it was.
C10_ClearKeepsOtherPrefixes ==
    [][last'.op = "clear"
          => \A b \in Adapters \ {last'.a} : \A key \in KeysOf(b) :
                LET bk == prefix[b] \o key
                IN  (bk \in DOMAIN store /\ ~IsPrefixOf(prefix[last'.a], bk))
                        => (bk \in DOMAIN store' /\ store'[bk] = store[bk])]_vars

\* C10 amended: an Apcu clear() removes exactly the entries whose backend key
\* starts with the adapter's prefix and leaves every other entry as it was;
\* a Redis clear() removes every entry of the database, whatever its prefix.
C10_ClearScope ==
    [][(last'.op = "clear" /\ ~Raised(last'))
          => IF class = "Apcu"
             THEN store' = Drop(store, {bk \in DOMAIN store :
                                          IsPrefixOf(prefix[last'.a], bk)})
             ELSE store' = EmptyStore]_vars

C10_Witness ==
    /\ last.op = "clear" /\ IsTrue(last.ret) /\ class = "Apcu"
    /\ \E bk \in DOMAIN store : ~IsPrefixOf(prefix[last.a], bk)

\* the prefixes of a and b name disjoint sets of backend keys
PrefixFree(a, b) ==
    ~IsPrefixOf(prefix[a], prefix[b]) /\ ~IsPrefixOf(prefix[b], prefix[a])
Writes == {"set", "setForever", "delete"}
\* a step of adapter a leaves every answer of adapter b as it was
Unobserved(a, b) ==
    /\ \A key \in RawKeys : HasNext(b, key) = HasNow(b, key)
    /\ \A p \in SubPrefixes : KeysNext(b, p) = KeysNow(b, p)

\* C11 as stated: the two adapters having different prefixes, a set,
\* setForever or delete through one never changes what has() and getKeys()
\* of the other report.
C11_KeyIsolation ==
    [][\A a, b \in Adapters :
         (a # b /\ prefix[a] # prefix[b] /\ last'.op \in Writes /\ last'.a = a)
         => Unobserved(a, b)]_vars

\* C11 amended: the same, for two prefixes neither of which begins with the
\* other.
C11_IsolationPrefixFree ==
    [][\A a, b \in Adapters :
         (a # b /\ PrefixFree(a, b) /\ last'.op \in Writes /\ last'.a = a)
         => Unobserved(a, b)]_vars

\* adapter 2 stored a key while adapter 1, under an unrelated prefix, holds
\* one of its own and reports only that one
C11_Witness ==
    /\ PrefixFree(1, 2)
    /\ last.op = "set" /\ last.a = 2 /\ IsTrue(last.ret)
    /\ HasNow(2, last.key)
    /\ HasNow(1, <<"q", "k">>) /\ ~HasNow(1, <<"k">>)
    /\ Cardinality(KeysNow(1, <<>>)) = 1

\* this adapter's raw keys under the sub-prefix p: its live entries, the
\* adapter's prefix taken off
RawKeysUnder(a, p) ==
    {key \in {Strip(prefix[a], bk) : bk \in {x \in LiveKeys(store) : IsPrefixOf(prefix[a], x)}} :
        IsPrefixOf(p, key)}

\* C12: getKeys(p) returns exactly the raw keys, prefix stripped, of the
\* adapter's live entries whose raw key starts with p.
C12_GetKeysRawKeys ==
    (last.op = "getKeys" /\ ~Raised(last)) => last.ret.v = RawKeysUnder(last.a, last.key)
\* the keys of a list, each once, in the order of their first occurrence
RECURSIVE Distinct(_, _)
Distinct(keys, seen) ==
    IF keys = <<>> THEN seen
    ELSE Distinct(Tail(keys),
                  IF \E i \in DOMAIN seen : seen[i] = Head(keys) THEN seen
                  ELSE Append(seen, Head(keys)))
\* what the map must hold for a key: the value of the backend's live entry,
\* or the default
Expected(key, default) ==
    LET bk == prefix[CacheAdapter] \o key
    IN  IF Live(store, bk) THEN getUnserializedData(CacheAdapter, store[bk].payload)
        ELSE default

\* C13: getMultiple(keys, default) returns a map holding every requested key
\* exactly once, in input order, each stored key with its stored value and
\* each missing key with the default.
C13_GetMultipleMap ==
    (last.op = "getMultiple" /\ last.key.type = "array" /\ ~Raised(last)) =>
        LET want == Distinct(last.key.val, <<>>)
            got == last.ret.v
        IN  /\ last.ret.kind = "map"
            /\ Len(got) = Len(want)
            /\ \A i \in DOMAIN want :
                  got[i] = <<want[i], Expected(want[i], last.value)>>

\* the tests' case: two stored keys and an unknown one, the default given
C13_Witness ==
    /\ last.op = "getMultiple" /\ ~Raised(last)
    /\ last.key = [type |-> "array", val |-> <<<<"k">>, <<"q", "k">>, <<"u">>>>]
    /\ last.value = Val(<<"d">>)
    /\ last.ret = Map(<<<< <<"k">>, Val(<<"a">>) >>, << <<"q", "k">>, Val(<<"b">>) >>,
                        << <<"u">>, Val(<<"d">>) >>>>)

\* C14: getMultiple with an argument that is neither an array nor a
\* Traversable raises InvalidArgumentException and reads nothing from the
\* backend.
C14_GetMultipleRefusesNonArray ==
    (last.op = "getMultiple" /\ last.key.type \notin {"array", "Traversable"}) =>
        /\ last.ret = Thrown("InvalidArgumentException")
        /\ last.trace = <<>>

\* the refusal happened while the backend held an entry to read
C14_Witness ==
    /\ last.op = "getMultiple" /\ last.key.type = "integer"
    /\ Raised(last)
    /\ HasNow(CacheAdapter, <<"k">>)
\* the backend key the step into the next state addressed
NextKey == prefix[last'.a] \o last'.key
Moved(op, n, step) == IF op = "increment" THEN n + step ELSE n - step

\* C15: increment(k, s) and decrement(k, s) on an absent key create it with s
\* and -s; on a number they return, and leave stored, the previous value plus
\* or minus the step.
C15_CounterArithmetic ==
    [][(/\ last'.op \in CounterCalls
        /\ ~Raised(last')
        /\ (Live(store, NextKey) => IsNum(store[NextKey].payload)))
       => LET want == Moved(last'.op, Previous(NextKey), NumOf(last'.value))
          IN  /\ last'.ret = Number(want)
              /\ Live(store', NextKey)
              /\ store'[NextKey].payload = Num(want)]_vars

\* the example's last call: decrement(k, 2) answering 6
C15_Witness ==
    /\ last.op = "decrement" /\ last.value = Num(2)
    /\ last.ret = Number(6)
    /\ store[prefix[last.a] \o last.key].payload = Num(6)

\* C16: increment and decrement on an entry holding a non-numeric value return
\* false, raise nothing and leave the backend as it was.
C16_NonNumericFalse ==
    [][(/\ last'.op \in CounterCalls
        /\ Live(store, NextKey) /\ ~IsNum(store[NextKey].payload)
        /\ (class = "Apcu" \/ adapter[last'.a] = "connected"))
       => (last'.ret = Bool(FALSE) /\ store' = store)]_vars

\* a counter call answered false on a live entry holding a string
C16_Witness ==
    /\ last.op \in CounterCalls /\ last.ret = Bool(FALSE)
    /\ Live(store, prefix[last.a] \o last.key)
    /\ ~IsNum(store[prefix[last.a] \o last.key].payload)
\* the steps the backend has applied for calls that have not returned yet
RECURSIVE Applied(_)
Applied(S) ==
    IF S = {} THEN 0
    ELSE LET a == CHOOSE x \in S : TRUE
             c == inflight[a]
         IN  (IF c.stage = "after" /\ c.ret.kind = "int" THEN Signed(c.op, c.step) ELSE 0)
                 + Applied(S \ {a})
Quiescent == \A a \in Adapters : inflight[a].stage = "idle"

\* C17: increments and decrements issued concurrently through several
\* instances are applied one at a time by the backend: no update is lost, and
\* once every call has returned the counter is the initial value plus the sum
\* of the signed steps.
C17_NoLostUpdate ==
    /\ Counter = expected + Applied(Adapters)
    /\ Quiescent => Counter = expected

\* two calls of different instances overlapped and both were applied
C17_Witness ==
    /\ inflight[1].stage = "after" /\ inflight[1].ret.kind = "int"
    /\ inflight[2].stage = "after" /\ inflight[2].ret.kind = "int"
    /\ inflight[1].op = "increment" /\ inflight[2].op = "decrement"
    /\ expected # 0
    /\ Counter = expected + inflight[1].step - inflight[2].step
\* the calls that set a connection up, and their names in a trace, in order
SetupNames == {"connect", "auth", "select", "setOption", "setSerializer"}
SetupOf(trace) ==
    LET sel == SelectSeq(trace, LAMBDA e : e.t = "call" /\ e.name \in SetupNames)
    IN  [i \in DOMAIN sel |-> sel[i].name]
\* the names of all the calls of a trace, in order
CallsOf(trace) ==
    LET sel == SelectSeq(trace, LAMBDA e : e.t = "call")
    IN  [i \in DOMAIN sel |-> sel[i].name]
\* the stages adapter a's options ask for
Stages(a) ==
    <<"connect">> \o (IF options[a].auth # "" THEN <<"auth">> ELSE <<>>)
                  \o (IF options[a].index > 0 THEN <<"select">> ELSE <<>>)
                  \o <<"setOption", "setSerializer">>

\* C18: a constructed Redis adapter holds no connection; the connection is
\* opened inside the first operation that needs the backend, before that
\* operation's first command, and never outside an operation of that
\* instance.
C18_LazyConnection ==
    /\ \A a \in Adapters : adapter[a] = "null"
    /\ [][\A a \in Adapters :
            /\ adapter'[a] # adapter[a] =>
                  /\ adapter[a] = "null" /\ last'.a = a
                  /\ "connect" \in Calls(last'.trace)
            /\ (last'.a = a /\ adapter[a] = "null") =>
                  /\ CallsOf(last'.trace) # <<>>
                  /\ Head(CallsOf(last'.trace)) = "connect"]_vars

\* one instance connected inside its first operation while the other, built
\* and never used, still has no connection
C18_Witness ==
    /\ class = "Redis"
    /\ ~Raised(last) /\ "connect" \in Calls(last.trace)
    /\ adapter[last.a] = "connected"
    /\ \E b \in Adapters : b # last.a /\ adapter[b] = "null"

\* C19: the setup runs connect, authenticate, select index, then the key
\* prefix and the serializer, in that order; a stage runs only after every
\* earlier one succeeded, and the handle is stored only after the last one.
C19_SetupOrder ==
    LET got == SetupOf(last.trace)
        all == Stages(last.a)
    IN  /\ Len(got) <= Len(all) /\ got = SubSeq(all, 1, Len(got))
        /\ Raised(last) => (got # all /\ got # <<>> /\ adapter[last.a] = "null")
        /\ (got # <<>> /\ ~Raised(last)) => (got = all /\ adapter[last.a] = "connected")
        /\ (got = <<>> /\ last.op # "none") => adapter[last.a] = "connected"

\* a setup with a password and an index ran all five stages
C19_Witness ==
    /\ options[last.a] = [auth |-> "secret", index |-> 1]
    /\ SetupOf(last.trace) = <<"connect", "auth", "select", "setOption", "setSerializer">>
    /\ adapter[last.a] = "connected" /\ IsTrue(last.ret)

\* C20: once an operation raised out of the connection setup, the next
\* operation of the same instance raises too, makes no connection attempt and
\* leaves the instance unconnected.
C20_SetupFailureFatal ==
    [][(Raised(last) /\ last'.a = last.a) =>
          /\ Raised(last')
          /\ "connect" \notin Calls(last'.trace)
          /\ adapter'[last.a] = "null"]_vars
\* the class and the message of the exception an operation raised
ClassOf(r) == Head(r.v)
MessageOf(r) == Tail(r.v)
Mentions(message, part) == \E i \in DOMAIN message : message[i] = part

\* C21: whatever stage of the connection setup fails, the operation raises a
\* StorageException and no exception class of the client's.
C21_SetupRaisesStorageException ==
    (Raised(last) /\ "connect" \in Calls(last.trace)) => ClassOf(last.ret) = "StorageException"

\* C22: the message of a StorageException raised for a failed connect,
\* authentication or index selection names the configured host and port.
C22_MessageNamesHostPort ==
    (/\ Raised(last) /\ "connect" \in Calls(last.trace)
     /\ ClassOf(last.ret) = "StorageException")
    => (Mentions(MessageOf(last.ret), Host) /\ Mentions(MessageOf(last.ret), Port))
\* C23: on an adapter whose connection is established, a has, delete,
\* increment, decrement, clear or getKeys call that fails at the backend,
\* a dropped connection included, returns false or a miss and raises nothing.
C23_ConnectedNeverRaises ==
    [][(/\ adapter[last'.a] = "connected"
        /\ last'.op \in {"has", "delete", "increment", "decrement", "clear", "getKeys"})
       => ~Raised(last')]_vars
\* the events of a trace, and the names of the two events of an operation
Fired(trace) == {trace[i] : i \in {j \in DOMAIN trace : trace[j].t = "fire"}}
Mutating == {"set", "setForever", "delete", "increment", "decrement", "clear"}
Before(op) ==
    CASE op = "set" -> "beforeSet" [] op = "setForever" -> "beforeSetForever"
      [] op = "delete" -> "beforeDelete" [] op = "increment" -> "beforeIncrement"
      [] op = "decrement" -> "beforeDecrement" [] OTHER -> "beforeClear"
After(op) ==
    CASE op = "set" -> "afterSet" [] op = "setForever" -> "afterSetForever"
      [] op = "delete" -> "afterDelete" [] op = "increment" -> "afterIncrement"
      [] op = "decrement" -> "afterDecrement" [] OTHER -> "afterClear"

\* C24: every set, setForever, delete, increment, decrement and clear that
\* returns has fired a before and an after event of its name, with its key.
C24_MutatingOpsFireEvents ==
    (last.op \in Mutating /\ ~Raised(last)) =>
        \E i, j \in DOMAIN last.trace :
            /\ i < j
            /\ last.trace[i] = Fire(Before(last.op), last.key)
            /\ last.trace[j] = Fire(After(last.op), last.key)

\* C25: every before and after event of an operation carries the key the
\* caller passed, never the prefixed key the backend is asked for.
C25_EventsCarryRawKey ==
    \A e \in Fired(last.trace) : e.key = last.key /\ e.key # prefix[last.a] \o last.key

\* a delete whose events carry "k" while the backend was asked for the
\* prefixed key
C25_Witness ==
    /\ last.op = "delete" /\ IsTrue(last.ret)
    /\ Fire("beforeDelete", <<"k">>) \in Fired(last.trace)
    /\ Fire("afterDelete", <<"k">>) \in Fired(last.trace)
    /\ \E i \in DOMAIN last.trace :
          last.trace[i].t = "call" /\ last.trace[i].key = prefix[last.a] \o <<"k">>
\* the names of the client's own serializers
NativeNames == {"redis_none", "redis_php", "redis_igbinary", "redis_msgpack", "redis_json"}
\* the step has run getAdapter() as far as setSerializer()
RanSetSerializer(op) == "setSerializer" \in Calls(op.trace)
\* a value just stored has passed through one encoder at most
StoredOnce(op, s) ==
    (/\ op.op \in {"set", "setForever"} /\ IsTrue(op.ret)
     /\ Live(s, prefix[op.a] \o op.key))
    => Len(s[prefix[op.a] \o op.key].payload) <= Len(op.value) + 1
\* the client encodes only where the core serializer is switched off
OneLayer ==
    \A a \in Adapters :
        serializerOption[a] \notin {"unset", "SERIALIZER_NONE"} => defaultSerializer[a] = ""

\* C26 as stated: when setSerializer() runs with the name of one of the five
\* client serializers, in any case, the name is cleared and the client's
\* option set; with any other name the option stays unset; no value is
\* encoded by both layers.
C26_NativeNamesDelegate ==
    [][/\ RanSetSerializer(last') =>
            IF strtolower(defaultSerializer[last'.a]) \in NativeNames
            THEN /\ defaultSerializer'[last'.a] = ""
                 /\ serializerOption'[last'.a] =
                        NativeOf(strtolower(defaultSerializer[last'.a]))
            ELSE serializerOption'[last'.a] = "unset"
       /\ StoredOnce(last', store')
       /\ OneLayer']_vars

\* C26 amended: the same for the names of the client serializers whose
\* constant the client's build defines (redis_none and redis_php always);
\* with any other name the option stays unset; no value is encoded by both
\* layers.
C26_DefinedNativeNamesDelegate ==
    [][/\ RanSetSerializer(last') =>
            IF Mapped(strtolower(defaultSerializer[last'.a]))
            THEN /\ defaultSerializer'[last'.a] = ""
                 /\ serializerOption'[last'.a] =
                        NativeOf(strtolower(defaultSerializer[last'.a]))
            ELSE serializerOption'[last'.a] = "unset"
       /\ StoredOnce(last', store')
       /\ OneLayer']_vars

\* a value stored through the client's JSON serializer alone
C26_Witness ==
    /\ last.op = "set" /\ IsTrue(last.ret) /\ RanSetSerializer(last)
    /\ adapter[last.a] = "connected"
    /\ defaultSerializer[last.a] = ""
    /\ serializerOption[last.a] = "SERIALIZER_JSON"
    /\ Live(store, prefix[last.a] \o last.key)
    /\ store[prefix[last.a] \o last.key].payload = <<"j">> \o last.value

\* the instance's serializer name is one its class can use on this build
Supported(a) ==
    IF class = "Redis" THEN setSerializer(a).ok ELSE initSerializer(defaultSerializer[a])

\* C27: no operation is ever called on an instance whose serializer name is
\* unsupported, and none fails for the name: such an instance is not built.
C27_UnsupportedFailsAtConstruction ==
    last.op # "none" =>
        /\ Supported(last.a)
        /\ ~(Raised(last) /\ ClassOf(last.ret) = "SupportException")

\* C29: no step changes an instance's options, prefix, lifetime or
\* serializer name.
C29_ConfigurationImmutable ==
    [][/\ options' = options
       /\ prefix' = prefix
       /\ lifetime' = lifetime
       /\ defaultSerializer' = defaultSerializer]_vars

\* C28: serialize() answers the held data and leaves it; unserialize(d)
\* makes d the held data; so unserialize(serialize()) leaves the held
\* string as it was, whatever the string.
C28_NoneIsIdentity ==
    [][/\ last'.op = "serialize" => (last'.ret = Val(held) /\ held' = held)
       /\ last'.op = "unserialize" => held' = last'.value
       /\ (/\ last.op = "serialize" /\ last'.op = "unserialize"
           /\ last'.value = last.ret.v) => held' = held]_vars

\* a string of full length put back by unserialize()
C28_Witness ==
    /\ last.op = "unserialize"
    /\ last.value = held
    /\ Len(held) = MaxLen

\* C31: an operation of an instance that holds a connection keeps it and
\* issues no connect, auth, select or option-setting call.
C31_OneConnection ==
    [][adapter[last'.a] = "connected" =>
          /\ SetupOf(last'.trace) = <<>>
          /\ adapter'[last'.a] = "connected"]_vars

\* a has() answered over the connection an earlier operation made
C31_Witness ==
    /\ class = "Redis" /\ last.op = "has"
    /\ CallsOf(last.trace) = <<"exists">>
    /\ adapter[last.a] = "connected"

\* the operations that fire events, and the names of their two events
Firing == {"set", "delete", "has", "increment", "decrement"}
FiredFirst(op) == IF op = "has" THEN "beforeHas" ELSE Before(op)
FiredLast(op) == IF op = "has" THEN "afterHas" ELSE After(op)
\* a trace without the calls that set the connection up
Outline(trace) ==
    SelectSeq(trace, LAMBDA e : e.t = "fire" \/ e.name \notin SetupNames)
\* the names of the entries of a trace, in order
NamesOf(trace) == [i \in DOMAIN trace |-> trace[i].name]
\* set was called with an integer ttl below 1
ExpiredSet(op) == op.op = "set" /\ op.ttl.type = "integer" /\ op.ttl.val < 1

\* C32: an operation that fires events fires its before event first, then
\* calls the backend, then fires its after event; set with an integer ttl
\* of 0 or less fires beforeSet, beforeDelete, calls the backend's delete,
\* then fires afterDelete, afterSet. An operation that raises has fired its
\* before event ahead of any backend call.
C32_EventOrder ==
    LET o == Outline(last.trace)
    IN  last.op \in Firing =>
          /\ o # <<>> /\ o[1] = Fire(FiredFirst(last.op), last.key)
          /\ ~Raised(last) =>
                IF ExpiredSet(last)
                THEN /\ Len(o) = 5
                     /\ o[2] = Fire("beforeDelete", last.key)
                     /\ o[3].t = "call" /\ o[3].name \in {"del", "apcu_delete"}
                     /\ o[4] = Fire("afterDelete", last.key)
                     /\ o[5] = Fire("afterSet", last.key)
                ELSE /\ Len(o) = 3
                     /\ o[2].t = "call"
                     /\ o[3] = Fire(FiredLast(last.op), last.key)

\* a set with a ttl of 0 that fired the nested events around the delete
C32_Witness ==
    /\ ExpiredSet(last) /\ ~Raised(last)
    /\ NamesOf(Outline(last.trace)) \in
          {<<"beforeSet", "beforeDelete", c, "afterDelete", "afterSet">> :
             c \in {"del", "apcu_delete"}}

\* the after event that answers a before event
Matching(name) ==
    CASE name = "beforeSet" -> "afterSet" [] name = "beforeDelete" -> "afterDelete"
      [] name = "beforeHas" -> "afterHas" [] name = "beforeIncrement" -> "afterIncrement"
      [] name = "beforeDecrement" -> "afterDecrement" [] OTHER -> "none"

\* C33: every before event of an operation is followed, within the
\* operation, by the after event of the same name and key, also when the
\* operation raises.
C33_BeforeMatchedByAfter ==
    \A i \in DOMAIN last.trace :
        (last.trace[i].t = "fire" /\ Matching(last.trace[i].name) # "none") =>
            \E j \in DOMAIN last.trace :
                /\ i < j
                /\ last.trace[j] = Fire(Matching(last.trace[i].name), last.trace[i].key)

\* the answers of a server to auth(): true, not true, an exception
AuthAnswers == {"up", "badauth", "auththrows"}
AuthFailure == StorageException(<<"Failed to authenticate with the Redis server">>)

\* C34: in the first operation of a Redis instance, an empty auth option
\* sends no auth command and the stage passes whatever the server would
\* answer; a non-empty one sends auth, passes when the answer is true, and
\* raises StorageException "Failed to authenticate with the Redis server"
\* when the answer is not true or auth throws.
C34_AuthStage ==
    [][\A a \in Adapters : \A srv \in AuthAnswers :
          (adapter[a] = "null" /\ Has(a, <<"k">>, srv)) =>
              IF options[a].auth = ""
              THEN "auth" \notin Calls(last'.trace) /\ ~Raised(last')
              ELSE /\ "auth" \in Calls(last'.trace)
                   /\ srv = "up" => (~Raised(last') /\ adapter'[a] = "connected")
                   /\ srv # "up" =>
                         /\ last'.ret = ThrownWith(AuthFailure)
                         /\ adapter'[a] = "null"]_vars

\* a password sent and not accepted
C34_Witness ==
    /\ options[last.a].auth # ""
    /\ SetupOf(last.trace) = <<"connect", "auth">>
    /\ last.ret = ThrownWith(AuthFailure)

\* the backend keys a trace asked apcu_delete for
Attempted(trace) ==
    {trace[i].key : i \in {j \in DOMAIN trace :
                              trace[j].t = "call" /\ trace[j].name = "apcu_delete"}}

\* C35: Apcu clear() asks the backend to delete every entry under the
\* instance's prefix, whichever deletes fail, and answers true exactly when
\* none of them failed: true with nothing to delete, false with no iterator.
C35_ClearAttemptsAll ==
    [][\A a \in Adapters : \A iterator \in BOOLEAN, failing \in SUBSET LiveKeys(store) :
          ClearUnder(a, iterator, failing) =>
              LET items == {bk \in LiveKeys(store) : IsPrefixOf(prefix[a], bk)}
              IN  IF ~iterator
                  THEN last'.ret = Bool(FALSE) /\ Attempted(last'.trace) = {}
                  ELSE /\ Attempted(last'.trace) = items
                       /\ IsTrue(last'.ret) <=> items \cap failing = {}
                       /\ LiveKeys(store') = LiveKeys(store) \ (items \ failing)]_vars

\* a clear() that went on to a second entry although a delete had failed
C35_Witness ==
    /\ last.op = "clear" /\ last.ret = Bool(FALSE)
    /\ Cardinality(Attempted(last.trace)) = 2
    /\ \E bk \in Attempted(last.trace) : Live(store, bk)
    /\ \E bk \in Attempted(last.trace) : ~Live(store, bk)

\* C36: every key getKeys() returned can be handed back to the instance:
\* has(k) answers true, and delete(k) answers true and leaves has(k) false.
C36_ReturnedKeysUsable ==
    (last.op = "getKeys" /\ ~Raised(last)) =>
        \A k \in last.ret.v :
            LET d == delete(last.a, store, adapter[last.a], "up", k)
            IN  /\ HasNow(last.a, k)
                /\ IsTrue(d.ret)
                /\ ~IsTrue(has(last.a, d.store, d.adapter, "up", k).ret)

\* what read(id) answers in the state a step leads to
ReadNext(a, id) == Session_read(a, store', adapter'[a], "up", id).ret

\* C37 as stated: a destroy(id) that returns has answered true without a
\* delete when id is empty or has no entry, and delete(id)'s answer
\* otherwise; after any destroy(id) that answered true, read(id) is "".
C37_DestroyThenReadEmpty ==
    [][(last'.op = "destroy" /\ ~Raised(last')) =>
          /\ IF empty(last'.key) \/ ~HasNow(last'.a, last'.key)
             THEN IsTrue(last'.ret) /\ Calls(last'.trace) \cap DeleteCalls = {}
             ELSE /\ last'.ret = delete(last'.a, store, adapter[last'.a], "up", last'.key).ret
                  /\ Calls(last'.trace) \cap DeleteCalls # {}
          /\ IsTrue(last'.ret) => ReadNext(last'.a, last'.key) = Val(<<>>)]_vars

\* C37 amended: the same, and after a destroy(id) of a non-empty id that
\* answered true, read(id) is ""; an entry stored under an empty id ("" or
\* "0") is left in place by destroy.
C37_DestroyNonEmptyThenReadEmpty ==
    [][(last'.op = "destroy" /\ ~Raised(last')) =>
          /\ IF empty(last'.key) \/ ~HasNow(last'.a, last'.key)
             THEN IsTrue(last'.ret) /\ Calls(last'.trace) \cap DeleteCalls = {}
             ELSE /\ last'.ret = delete(last'.a, store, adapter[last'.a], "up", last'.key).ret
                  /\ Calls(last'.trace) \cap DeleteCalls # {}
          /\ (IsTrue(last'.ret) /\ ~empty(last'.key)) =>
                ReadNext(last'.a, last'.key) = Val(<<>>)]_vars

\* a destroy that found the entry, deleted it and answered true
C37_Witness ==
    /\ last.op = "destroy" /\ IsTrue(last.ret) /\ ~empty(last.key)
    /\ Calls(last.trace) \cap DeleteCalls # {}
    /\ ~Live(store, prefix[last.a] \o last.key)

\* C38: a destroy(id) that found the entry and went on to delete it answers
\* true and leaves no entry, whatever another handler did in between.
C38_ConcurrentDestroy ==
    (/\ last.op = "destroy" /\ ~Raised(last)
     /\ Calls(last.trace) \cap DeleteCalls # {})
    => (IsTrue(last.ret) /\ ~Live(store, prefix[last.a] \o last.key))

\* C39: a read(id) that returns answers a string, "" when there is no
\* entry for id, never null; a read(id) right after a write(id, data) of the
\* same handler that answered true answers data.
C39_WriteThenRead ==
    [][(last'.op = "read" /\ ~Raised(last')) =>
          /\ last'.ret.kind = "value"
          /\ ~Live(store, prefix[last'.a] \o last'.key) => last'.ret = Val(<<>>)
          /\ (/\ last.op = "write" /\ IsTrue(last.ret)
              /\ last.a = last'.a /\ last.key = last'.key) => last'.ret = Val(last.value)]_vars

\* the data of a session read back
C39_Witness ==
    /\ last.op = "read" /\ last.ret = Val(<<"a">>)
    /\ Live(store, prefix[last.a] \o last.key)
\* the validators the constructor is to append for an options array: one per
\* key of the chain, in the array's order
Wanted(given) ==
    LET matching == SelectSeq(given, LAMBDA k : FileBranch(k).validator # "continue")
    IN [i \in DOMAIN matching |->
           [class |-> FileBranch(matching[i]).validator, key |-> matching[i]]]

\* C40: when the File validator's constructor has run, this->validators holds
\* exactly one sub-validator per option key that matches one of the seven
\* names whatever its case, in the order of the options, and none for any
\* other key
C40_OnePerMatchingKey ==
    file.stage = "done" => file.validators = Wanted(file.given)

\* C40, the part that holds: the constructor's loop ends for every options array
C40_ConstructorTerminates == (file.stage = "loop") ~> (file.stage = "done")

====
